---- MODULE Spec2Model ----
(***************************************************************************)
(* A model of the similarity-and-clustering engine of the plagiarism       *)
(* detector: k-gram Jaccard similarity (rabin_karp.py), the thresholded    *)
(* similarity graph (similarity_graph.py), connected-component clustering  *)
(* (clustering.py), representative selection (greedy_selection.py) and the *)
(* detector facade (plagiarism_detector.py).                               *)
(*                                                                         *)
(* Python values are modelled as follows.                                  *)
(*   list            a sequence                                            *)
(*   dict            a sequence of <<key, value>> pairs in insertion order *)
(*                   (Python dicts iterate in insertion order; assigning   *)
(*                   to an existing key keeps its position)                *)
(*   set             a set                                                 *)
(*   str             a string; a path is the sequence of its components    *)
(*   float a / b     the exact fraction <<n, d>> in lowest terms; the      *)
(*                   operands are small integers, for which a correctly    *)
(*                   rounded quotient is equal exactly when the fractions  *)
(*                   are equal.  Where floats are added the sum is rounded *)
(*                   as a binary64 sum is (see FAdd)                       *)
(***************************************************************************)
EXTENDS Integers, Sequences, FiniteSets, TLC

VARIABLES
    tokens1,              \* RabinKarp: first argument of the last call
    tokens2,              \* RabinKarp: second argument of the last call
    k_gram_size,          \* RabinKarp.k_gram_size
    similarity,           \* value returned by calculate_similarity, or NoResult
    similarity_threshold, \* SimilarityGraph / PlagiarismDetector threshold
    graph,                \* SimilarityGraph.graph (dict node -> dict node -> weight)
    min_cluster_size,     \* Clustering.min_cluster_size
    clusters,             \* <<function called, value returned>> of the last clustering call on graph, or NoResult
    submissions,          \* PlagiarismDetector.submissions (dict id -> tokens)
    results,              \* value returned by detect_plagiarism, or NoResult
    resubmissions,        \* history: number of add_submission calls that reused an id already held
    last_call,            \* history: <<method, outcome>> of the last SimilarityGraph call, or NoResult
    tree_order,           \* BPlusTree.order
    tree,                 \* BPlusTree: the root pointer and the node objects
    inserted,             \* history: the function key -> value of the last insert of the key
    sel_cluster,          \* GreedySelection: the cluster argument of the last call
    sel_max,              \* GreedySelection.max_representatives
    representatives,      \* <<method called, value returned>> of the last selection, or NoResult
    code_tokens,          \* CodeParser.tokenize: the tokens found in the code
    normalized_tokens,    \* value returned by tokenize, or NoResult
    language,             \* CodeParser: the language argument of the last call
    source,               \* CodeParser: the code argument of the last call
    source2,              \* CodeParser: the code argument of the call on the edited text
    edit,                 \* history: how source2 was obtained from source
    parsed,               \* <<method called, value returned>> for source, or NoResult
    parsed2,              \* <<method called, value returned>> for source2, or NoResult
    blocks,               \* value returned by _extract_blocks for source, or NoResult
    cov,                  \* select_representatives_coverage: its locals and position, or NoResult
    call,                 \* history: the last call of a SimilarityGraph method and the graph before it
    subgraph,             \* SimilarityGraph.graph of the graph get_subgraph returned, or NoResult
    matching_sequences,   \* value returned by find_matching_sequences, or NoResult
    metadata_file,        \* the lines of the metadata file of the run (a caller's metadata per file)
    metadata_store        \* PlagiarismDetector.metadata_store (a BPlusTree)

\* the state of the components modelled in the second half of the module
vars2 == <<last_call, tree_order, tree, inserted, sel_cluster, sel_max,
           representatives, code_tokens, normalized_tokens>>

\* the state of the components modelled in the last part of the module
vars3 == <<language, source, source2, edit, parsed, parsed2, blocks, cov, call,
           subgraph, matching_sequences, metadata_file, metadata_store>>

vars == <<tokens1, tokens2, k_gram_size, similarity, similarity_threshold, graph,
          min_cluster_size, clusters, submissions, results, resubmissions, vars2,
          vars3>>

\* No value has been returned yet.
NoResult == <<>>

----------------------------------------------------------------------------
(* Bounds *)

\* longest token list given to calculate_similarity in SpecSim
MaxLen == 3
\* largest k-gram size in SpecSim
MaxK == 3
\* most edges (self-loops included) a graph of SpecGraph holds
MaxEdges == 3
\* largest min_cluster_size in SpecGraph
MaxMinSize == 3

\* number of distinct file names (submission ids) in SpecDetector
NumIds == 3
\* most add_submission calls of a run of SpecResubmit that reuse an id
MaxResubmissions == 1

\* number of distinct keys inserted into a B+ tree in SpecTree
NumKeys == 10
\* number of distinct keys inserted into a B+ tree in SpecTreeUpdate
NumUpdateKeys == 7
\* most keys of a run of SpecTreeUpdate that are inserted again
MaxUpdates == 1

\* largest max_representatives in SpecSelect
MaxRepresentatives == 3

\* most edges of the graph built in SpecGraphCalls
MaxCallEdges == 2

\* most tokens of a source text in SpecTokenize
MaxTokens == 3

\* most tokens of a token list in SpecExtract
MaxBlockTokens == 3

\* most characters of a source text in SpecComments
MaxSource == 5

----------------------------------------------------------------------------
(* Defaults of the components the detector constructs *)

\* RabinKarp() default k_gram_size
DefaultKGramSize == 5
\* Clustering() default min_cluster_size
DefaultMinClusterSize == 2
\* GreedySelection() default max_representatives
DefaultMaxRepresentatives == 2
\* BPlusTree() default order
DefaultOrder == 4

----------------------------------------------------------------------------
(* Floats as exact fractions *)

RECURSIVE GCD(_, _)
GCD(a, b) == IF b = 0 THEN a ELSE GCD(b, a % b)

\* n / d for integers n >= 0, d > 0
Frac(n, d) == LET g == GCD(n, d) IN <<n \div g, d \div g>>

FZero == <<0, 1>>
FOne == <<1, 1>>

FLess(a, b) == a[1] * b[2] < b[1] * a[2]
FGeq(a, b) == ~FLess(a, b)

----------------------------------------------------------------------------
(* Floats that are added: IEEE 754 binary64, round to nearest even *)
(* The value of a double is kept exactly, as the number of units of 2^-58  *)
(* it is worth, in three limbs <<l2, l1, l0>> of 20 bits (l2 is unbounded). *)
(* A double of at least 2^-6 is a whole number of units; the doubles of     *)
(* [2^e, 2^(e+1)) are the multiples of 2^(e+6) units.  Weights and sums     *)
(* below 2^-6, other than 0, are outside the model.                         *)

\* 2^20
LimbBase == 1048576

RECURSIVE Pow2(_)
Pow2(n) == IF n = 0 THEN 1 ELSE 2 * Pow2(n - 1)

\* the greatest e with 2^e <= n, for n >= 1
RECURSIVE Log2Floor(_)
Log2Floor(n) == IF n < 2 THEN 0 ELSE 1 + Log2Floor(n \div 2)

\* limbs brought back below LimbBase
Carry(v) ==
    LET s1 == v[2] + (v[3] \div LimbBase)
    IN <<v[1] + (s1 \div LimbBase), s1 % LimbBase, v[3] % LimbBase>>

\* the sum of two values, not rounded
ExactAdd(a, b) == Carry(<<a[1] + b[1], a[2] + b[2], a[3] + b[3]>>)

\* the doubles next to v are the multiples of 2^GridBits(v) units
GridBits(v) == IF v[1] < 4096 THEN 0 ELSE Log2Floor(v[1]) - 12

\* the double nearest to v + num / den units (0 <= num < den), ties going to
\* the even significand
RoundToDouble(v, num, den) ==
    LET G == Pow2(GridBits(v))
        t == v[3] % G
        down == <<v[1], v[2], v[3] - t>>
        up == Carry(<<v[1], v[2], v[3] - t + G>>)
        twice == 2 * (t * den + num)
        half == G * den
    IN IF twice < half THEN down
       ELSE IF twice > half THEN up
       ELSE IF ((v[3] - t) \div G) % 2 = 0 THEN down ELSE up

\* the double a fraction <<n, d>> stands for: n / d correctly rounded
Double(f) ==
    LET n2 == f[1] * 262144
        r2 == n2 % f[2]
        r1 == (r2 * LimbBase) % f[2]
        r0 == (r1 * LimbBase) % f[2]
    IN RoundToDouble(<<n2 \div f[2], (r2 * LimbBase) \div f[2],
                       (r1 * LimbBase) \div f[2]>>, r0, f[2])

\* 0.0
DZero == <<0, 0, 0>>

DLess(a, b) ==
    \/ a[1] < b[1]
    \/ a[1] = b[1] /\ a[2] < b[2]
    \/ a[1] = b[1] /\ a[2] = b[2] /\ a[3] < b[3]
DGeq(a, b) == ~DLess(a, b)

\* a + b of two doubles
FAdd(a, b) == RoundToDouble(ExactAdd(a, b), 0, 1)

\* a / n of a double and an int n >= 1
FDivInt(a, n) ==
    LET r2 == a[1] % n
        r1 == (r2 * LimbBase + a[2]) % n
        r0 == (r1 * LimbBase + a[3]) % n
    IN RoundToDouble(<<a[1] \div n, (r2 * LimbBase + a[2]) \div n,
                       (r1 * LimbBase + a[3]) \div n>>, r0, n)

----------------------------------------------------------------------------
(* Python dict, insertion ordered *)

DictKeys(d) == [i \in 1..Len(d) |-> d[i][1]]
DictKeySet(d) == {d[i][1] : i \in 1..Len(d)}
DictHas(d, k) == \E i \in 1..Len(d) : d[i][1] = k
DictGet(d, k) == d[CHOOSE i \in 1..Len(d) : d[i][1] = k][2]
DictSet(d, k, v) ==
    IF DictHas(d, k)
    THEN [i \in 1..Len(d) |-> IF d[i][1] = k THEN <<k, v>> ELSE d[i]]
    ELSE Append(d, <<k, v>>)
DictDel(d, k) == SelectSeq(d, LAMBDA e : e[1] # k)

----------------------------------------------------------------------------
(* rabin_karp.py *)

\* ' '.join(tokens[i:i+k]) with 0-based i
RECURSIVE JoinKGram(_, _, _)
JoinKGram(tokens, i, k) ==
    IF k = 1 THEN tokens[i + 1]
    ELSE tokens[i + 1] \o " " \o JoinKGram(tokens, i + 1, k - 1)

\* hashlib.md5(k_gram.encode()).hexdigest(): the digest is kept symbolic; two
\* digests are equal exactly when the hashed strings are equal.
hash(k_gram) == <<"md5", k_gram>>

\* the loop of _generate_k_grams from position i on, k_grams built so far
RECURSIVE KGramLoop(_, _, _, _)
KGramLoop(tokens, k, i, k_grams) ==
    IF i >= Len(tokens) - k + 1 THEN k_grams
    ELSE LET hash_value == hash(JoinKGram(tokens, i, k))
             positions == IF DictHas(k_grams, hash_value)
                          THEN DictGet(k_grams, hash_value) ELSE <<>>
         IN KGramLoop(tokens, k, i + 1,
                      DictSet(k_grams, hash_value, Append(positions, i)))

\* the loop of _generate_k_grams stopping one window early
RECURSIVE KGramLoopShort(_, _, _, _)
KGramLoopShort(tokens, k, i, k_grams) ==
    IF i >= Len(tokens) - k THEN k_grams
    ELSE LET hash_value == hash(JoinKGram(tokens, i, k))
             positions == IF DictHas(k_grams, hash_value)
                          THEN DictGet(k_grams, hash_value) ELSE <<>>
         IN KGramLoopShort(tokens, k, i + 1,
                           DictSet(k_grams, hash_value, Append(positions, i)))

generate_k_grams_short(tokens, k) ==
    IF Len(tokens) < k THEN <<>> ELSE KGramLoopShort(tokens, k, 0, <<>>)

generate_k_grams(tokens, k) ==
    IF Len(tokens) < k THEN <<>> ELSE KGramLoop(tokens, k, 0, <<>>)

find_matches(k_grams1, k_grams2) ==
    {h \in DictKeySet(k_grams1) : DictHas(k_grams2, h)}

\* calculate_similarity answering 1.0 for equal lists before looking at their
\* k-grams
calculate_similarity_equal_first(t1, t2, k) ==
    IF t1 = <<>> \/ t2 = <<>> THEN FZero
    ELSE IF t1 = t2 THEN FOne
    ELSE LET k_grams1 == generate_k_grams(t1, k)
             k_grams2 == generate_k_grams(t2, k)
             matches == find_matches(k_grams1, k_grams2)
         IN IF k_grams1 = <<>> \/ k_grams2 = <<>> THEN FZero
            ELSE LET union_size == Len(k_grams1) + Len(k_grams2)
                                     - Cardinality(matches)
                 IN IF union_size = 0 THEN FZero
                    ELSE Frac(Cardinality(matches), union_size)

calculate_similarity_containment(t1, t2, k) ==
    IF t1 = <<>> \/ t2 = <<>> THEN FZero
    ELSE LET k_grams1 == generate_k_grams(t1, k)
             k_grams2 == generate_k_grams(t2, k)
             matches == find_matches(k_grams1, k_grams2)
         IN IF k_grams1 = <<>> \/ k_grams2 = <<>> THEN FZero
            ELSE Frac(Cardinality(matches), Len(k_grams1))

calculate_similarity_nosubtract(t1, t2, k) ==
    IF t1 = <<>> \/ t2 = <<>> THEN FZero
    ELSE LET k_grams1 == generate_k_grams(t1, k)
             k_grams2 == generate_k_grams(t2, k)
             matches == find_matches(k_grams1, k_grams2)
         IN IF k_grams1 = <<>> \/ k_grams2 = <<>> THEN FZero
            ELSE Frac(Cardinality(matches), Len(k_grams1) + Len(k_grams2))

calculate_similarity(t1, t2, k) ==
    IF t1 = <<>> \/ t2 = <<>> THEN FZero
    ELSE LET k_grams1 == generate_k_grams(t1, k)
             k_grams2 == generate_k_grams(t2, k)
             matches == find_matches(k_grams1, k_grams2)
         IN IF k_grams1 = <<>> \/ k_grams2 = <<>> THEN FZero
            ELSE LET union_size == Len(k_grams1) + Len(k_grams2)
                                     - Cardinality(matches)
                 IN IF union_size = 0 THEN FZero
                    ELSE Frac(Cardinality(matches), union_size)

\* the while loop of _extend_match: the length of the extended match
RECURSIVE ExtendLoop(_, _, _, _, _)
ExtendLoop(t1, t2, pos1, pos2, length) ==
    IF /\ pos1 + length < Len(t1)
       /\ pos2 + length < Len(t2)
       /\ t1[pos1 + length + 1] = t2[pos2 + length + 1]
    THEN ExtendLoop(t1, t2, pos1, pos2, length + 1)
    ELSE length

\* _extend_match; positions are 0-based as in the code
extend_match(t1, t2, pos1, pos2, k) == ExtendLoop(t1, t2, pos1, pos2, k)

\* for pos2 in k_grams2[hash_value], from the j-th on
RECURSIVE MatchPos2Loop(_, _, _, _, _, _, _)
MatchPos2Loop(t1, t2, k, pos1, positions2, j, found) ==
    IF j > Len(positions2) THEN found
    ELSE LET pos2 == positions2[j]
         IN MatchPos2Loop(t1, t2, k, pos1, positions2, j + 1,
                IF SubSeq(t1, pos1 + 1, pos1 + k) = SubSeq(t2, pos2 + 1, pos2 + k)
                THEN Append(found, <<pos1, pos2,
                                     extend_match(t1, t2, pos1, pos2, k)>>)
                ELSE found)

\* for pos1 in k_grams1[hash_value], from the i-th on
RECURSIVE MatchPos1Loop(_, _, _, _, _, _, _)
MatchPos1Loop(t1, t2, k, positions1, positions2, i, found) ==
    IF i > Len(positions1) THEN found
    ELSE MatchPos1Loop(t1, t2, k, positions1, positions2, i + 1,
             MatchPos2Loop(t1, t2, k, positions1[i], positions2, 1, found))

\* for hash_value in k_grams1, from the h-th key on
RECURSIVE MatchHashLoop(_, _, _, _, _, _, _)
MatchHashLoop(t1, t2, k, k_grams1, k_grams2, h, found) ==
    IF h > Len(k_grams1) THEN found
    ELSE LET hash_value == k_grams1[h][1]
         IN MatchHashLoop(t1, t2, k, k_grams1, k_grams2, h + 1,
                IF DictHas(k_grams2, hash_value)
                THEN MatchPos1Loop(t1, t2, k, k_grams1[h][2],
                                   DictGet(k_grams2, hash_value), 1, found)
                ELSE found)

\* the key (m[0], m[1]) of a is less than that of b
MatchKeyLess(a, b) == a[1] < b[1] \/ (a[1] = b[1] /\ a[2] < b[2])

\* sorted(matches, key=lambda m: (m[0], m[1])): a stable insertion of the
\* i-th match and those after it into the sorted list
RECURSIVE SortedMatches(_, _, _)
SortedMatches(found, i, sorted) ==
    IF i > Len(found) THEN sorted
    ELSE LET m == found[i]
             before == SelectSeq(sorted, LAMBDA x : ~MatchKeyLess(m, x))
             after == SelectSeq(sorted, LAMBDA x : MatchKeyLess(m, x))
         IN SortedMatches(found, i + 1, before \o <<m>> \o after)

Max(a, b) == IF a > b THEN a ELSE b

\* the for loop of _merge_overlapping_matches from the i-th sorted match on
RECURSIVE MergeLoop(_, _, _, _)
MergeLoop(sorted_matches, i, merged, current) ==
    IF i > Len(sorted_matches) THEN Append(merged, current)
    ELSE LET pos1 == sorted_matches[i][1]
             pos2 == sorted_matches[i][2]
             length == sorted_matches[i][3]
             curr_pos1 == current[1]
             curr_pos2 == current[2]
             curr_length == current[3]
         IN IF pos1 < curr_pos1 + curr_length /\ pos2 < curr_pos2 + curr_length
            THEN MergeLoop(sorted_matches, i + 1, merged,
                           <<curr_pos1, curr_pos2,
                             Max(curr_length, pos1 - curr_pos1 + length)>>)
            ELSE MergeLoop(sorted_matches, i + 1, Append(merged, current),
                           sorted_matches[i])

\* _merge_overlapping_matches
merge_overlapping_matches(found) ==
    IF found = <<>> THEN <<>>
    ELSE LET sorted_matches == SortedMatches(found, 1, <<>>)
         IN MergeLoop(sorted_matches, 2, <<>>, sorted_matches[1])

\* find_matching_sequences: the list of (pos1, pos2, length), 0-based
find_matching_sequences(t1, t2, k) ==
    IF t1 = <<>> \/ t2 = <<>> THEN <<>>
    ELSE merge_overlapping_matches(
             MatchHashLoop(t1, t2, k, generate_k_grams(t1, k),
                           generate_k_grams(t2, k), 1, <<>>))

----------------------------------------------------------------------------
(* similarity_graph.py *)

add_node(g, node_id) ==
    IF ~DictHas(g, node_id) THEN Append(g, <<node_id, <<>>>>) ELSE g

\* add_edge without the threshold test
add_edge_ungated(g, threshold, node1, node2, weight) ==
    LET g1 == add_node(add_node(g, node1), node2)
        g2 == DictSet(g1, node1, DictSet(DictGet(g1, node1), node2, weight))
    IN DictSet(g2, node2, DictSet(DictGet(g2, node2), node1, weight))

\* add_edge that adds the two nodes before it tests the weight
add_edge_nodes_first(g, threshold, node1, node2, weight) ==
    LET g1 == add_node(add_node(g, node1), node2)
    IN IF FLess(weight, threshold) THEN g1
       ELSE LET g2 == DictSet(g1, node1,
                              DictSet(DictGet(g1, node1), node2, weight))
            IN DictSet(g2, node2, DictSet(DictGet(g2, node2), node1, weight))

add_edge(g, threshold, node1, node2, weight) ==
    IF FLess(weight, threshold) THEN g
    ELSE LET g1 == add_node(add_node(g, node1), node2)
             g2 == DictSet(g1, node1, DictSet(DictGet(g1, node1), node2, weight))
         IN DictSet(g2, node2, DictSet(DictGet(g2, node2), node1, weight))

get_neighbors(g, node) ==
    IF ~DictHas(g, node) THEN <<>> ELSE DictGet(g, node)

\* get_nodes listing the keys from the last inserted to the first
get_nodes_reversed(g) == [i \in 1..Len(g) |-> g[Len(g) + 1 - i][1]]

get_nodes(g) == DictKeys(g)

get_edge_weight(g, node1, node2) ==
    IF ~DictHas(g, node1) \/ ~DictHas(DictGet(g, node1), node2) THEN FZero
    ELSE DictGet(DictGet(g, node1), node2)

\* the for loop of remove_node over the neighbours of node, from the i-th on,
\* and the deletion of the node after it.  neighbors is the key order of
\* self.graph[node] when the loop starts.  The loop deletes from the dicts of
\* the neighbours; when node is its own neighbour the dict being iterated
\* shrinks and the iterator raises RuntimeError at its next step; a neighbour
\* that is no key of self.graph raises KeyError.  An exception leaves the
\* graph as the loop has changed it so far.
RECURSIVE RemoveNodeLoop(_, _, _, _)
RemoveNodeLoop(g, node, neighbors, i) ==
    IF i > Len(neighbors)
    THEN [graph |-> DictDel(g, node), outcome |-> "None"]
    ELSE LET neighbor == neighbors[i]
         IN IF ~DictHas(g, neighbor)
            THEN [graph |-> g, outcome |-> "KeyError"]
            ELSE IF DictHas(DictGet(g, neighbor), node)
                 THEN LET g2 == DictSet(g, neighbor,
                                        DictDel(DictGet(g, neighbor), node))
                      IN IF neighbor = node
                         THEN [graph |-> g2, outcome |-> "RuntimeError"]
                         ELSE RemoveNodeLoop(g2, node, neighbors, i + 1)
                 ELSE RemoveNodeLoop(g, node, neighbors, i + 1)

\* remove_node: the graph it leaves and how the call ends
remove_node(g, node) ==
    IF ~DictHas(g, node) THEN [graph |-> g, outcome |-> "None"]
    ELSE RemoveNodeLoop(g, node, DictKeys(DictGet(g, node)), 1)

\* node in nodes, for a list
ListHas(list, x) == \E i \in 1..Len(list) : list[i] = x

\* for neighbor, weight in self.graph[node].items(), from the j-th item on;
\* sub is the graph of the subgraph built so far
RECURSIVE SubgraphNeighborLoop(_, _, _, _, _, _)
SubgraphNeighborLoop(items, j, nodes, node, threshold, sub) ==
    IF j > Len(items) THEN sub
    ELSE SubgraphNeighborLoop(items, j + 1, nodes, node, threshold,
             IF ListHas(nodes, items[j][1])
             THEN add_edge(sub, threshold, node, items[j][1], items[j][2])
             ELSE sub)

\* for node in nodes, from the i-th on
RECURSIVE SubgraphLoop(_, _, _, _, _)
SubgraphLoop(g, threshold, nodes, i, sub) ==
    IF i > Len(nodes) THEN sub
    ELSE SubgraphLoop(g, threshold, nodes, i + 1,
             IF DictHas(g, nodes[i])
             THEN SubgraphNeighborLoop(DictGet(g, nodes[i]), 1, nodes,
                                       nodes[i], threshold, sub)
             ELSE sub)

\* get_subgraph: the graph of the SimilarityGraph returned, which is
\* constructed with the threshold of the original
get_subgraph(g, threshold, nodes) == SubgraphLoop(g, threshold, nodes, 1, <<>>)

----------------------------------------------------------------------------
(* clustering.py *)

\* the while loop of _bfs without the test that skips a visited node
RECURSIVE BfsLoopNoSkip(_, _, _, _)
BfsLoopNoSkip(g, queue, visited, cluster) ==
    IF queue = <<>> THEN [cluster |-> cluster, visited |-> visited]
    ELSE LET node == Head(queue)
             visited2 == visited \cup {node}
             neighbors == DictKeys(get_neighbors(g, node))
         IN BfsLoopNoSkip(g,
                Tail(queue) \o SelectSeq(neighbors, LAMBDA n : n \notin visited2),
                visited2, Append(cluster, node))

\* the while loop of _bfs; yields the cluster and the updated visited set
RECURSIVE BfsLoop(_, _, _, _)
BfsLoop(g, queue, visited, cluster) ==
    IF queue = <<>> THEN [cluster |-> cluster, visited |-> visited]
    ELSE LET node == Head(queue)
         IN IF node \in visited THEN BfsLoop(g, Tail(queue), visited, cluster)
            ELSE LET visited2 == visited \cup {node}
                     neighbors == DictKeys(get_neighbors(g, node))
                 IN BfsLoop(g,
                        Tail(queue) \o SelectSeq(neighbors,
                                                 LAMBDA n : n \notin visited2),
                        visited2, Append(cluster, node))

bfs(g, start_node, visited) == BfsLoop(g, <<start_node>>, visited, <<>>)

\* the for loop of find_clusters with a strict size test
RECURSIVE FindClustersLoopStrict(_, _, _, _, _, _)
FindClustersLoopStrict(g, m, nodes, i, visited, cls) ==
    IF i > Len(nodes) THEN cls
    ELSE IF nodes[i] \in visited
         THEN FindClustersLoopStrict(g, m, nodes, i + 1, visited, cls)
         ELSE LET r == bfs(g, nodes[i], visited)
              IN FindClustersLoopStrict(g, m, nodes, i + 1, r.visited,
                     IF Len(r.cluster) > m THEN Append(cls, r.cluster) ELSE cls)

\* the for loop of find_clusters from the i-th node on
RECURSIVE FindClustersLoop(_, _, _, _, _, _)
FindClustersLoop(g, m, nodes, i, visited, cls) ==
    IF i > Len(nodes) THEN cls
    ELSE IF nodes[i] \in visited
         THEN FindClustersLoop(g, m, nodes, i + 1, visited, cls)
         ELSE LET r == bfs(g, nodes[i], visited)
              IN FindClustersLoop(g, m, nodes, i + 1, r.visited,
                     IF Len(r.cluster) >= m THEN Append(cls, r.cluster) ELSE cls)

find_clusters(g, m) == FindClustersLoop(g, m, get_nodes(g), 1, {}, <<>>)

\* _dfs that looks at the direct neighbours only
dfs_shallow(g, node, visited, cluster) ==
    IF node \in visited THEN [cluster |-> cluster, visited |-> visited]
    ELSE LET fresh == SelectSeq(DictKeys(get_neighbors(g, node)),
                                LAMBDA n : n \notin visited /\ n # node)
         IN [cluster |-> cluster \o <<node>> \o fresh,
             visited |-> visited \cup {node} \cup {fresh[j] : j \in 1..Len(fresh)}]

RECURSIVE dfs(_, _, _, _)
RECURSIVE DfsNeighbors(_, _, _, _, _)

\* _dfs; yields the cluster and the updated visited set
dfs(g, node, visited, cluster) ==
    IF node \in visited THEN [cluster |-> cluster, visited |-> visited]
    ELSE DfsNeighbors(g, DictKeys(get_neighbors(g, node)), 1,
                      visited \cup {node}, Append(cluster, node))

\* the for loop of _dfs over the neighbours, from the i-th on
DfsNeighbors(g, neighbors, i, visited, cluster) ==
    IF i > Len(neighbors) THEN [cluster |-> cluster, visited |-> visited]
    ELSE IF neighbors[i] \notin visited
         THEN LET r == dfs(g, neighbors[i], visited, cluster)
              IN DfsNeighbors(g, neighbors, i + 1, r.visited, r.cluster)
         ELSE DfsNeighbors(g, neighbors, i + 1, visited, cluster)

\* the for loop of find_clusters_dfs with the cluster list created once,
\* before the loop
RECURSIVE FindClustersDfsLoopShared(_, _, _, _, _, _, _)
FindClustersDfsLoopShared(g, m, nodes, i, visited, cls, acc) ==
    IF i > Len(nodes) THEN cls
    ELSE IF nodes[i] \in visited
         THEN FindClustersDfsLoopShared(g, m, nodes, i + 1, visited, cls, acc)
         ELSE LET r == dfs(g, nodes[i], visited, acc)
              IN FindClustersDfsLoopShared(g, m, nodes, i + 1, r.visited,
                     IF Len(r.cluster) >= m THEN Append(cls, r.cluster) ELSE cls,
                     r.cluster)

find_clusters_dfs_shared(g, m) ==
    FindClustersDfsLoopShared(g, m, get_nodes(g), 1, {}, <<>>, <<>>)

\* the for loop of find_clusters_dfs from the i-th node on
RECURSIVE FindClustersDfsLoop(_, _, _, _, _, _)
FindClustersDfsLoop(g, m, nodes, i, visited, cls) ==
    IF i > Len(nodes) THEN cls
    ELSE IF nodes[i] \in visited
         THEN FindClustersDfsLoop(g, m, nodes, i + 1, visited, cls)
         ELSE LET r == dfs(g, nodes[i], visited, <<>>)
              IN FindClustersDfsLoop(g, m, nodes, i + 1, r.visited,
                     IF Len(r.cluster) >= m THEN Append(cls, r.cluster) ELSE cls)

find_clusters_dfs(g, m) == FindClustersDfsLoop(g, m, get_nodes(g), 1, {}, <<>>)

----------------------------------------------------------------------------
(* greedy_selection.py *)

\* the for loop of _calculate_average_similarity from the i-th member on
RECURSIVE AverageLoop(_, _, _, _, _, _)
AverageLoop(node, cluster, g, i, total_similarity, count) ==
    IF i > Len(cluster)
    THEN IF count = 0 THEN DZero ELSE FDivInt(total_similarity, count)
    ELSE IF cluster[i] # node
         THEN AverageLoop(node, cluster, g, i + 1,
                          FAdd(total_similarity,
                               Double(get_edge_weight(g, node, cluster[i]))),
                          count + 1)
         ELSE AverageLoop(node, cluster, g, i + 1, total_similarity, count)

calculate_average_similarity(node, cluster, g) ==
    AverageLoop(node, cluster, g, 1, DZero, 0)

\* a descending sort that puts an item before the earlier items of equal key
RECURSIVE SortedDescendingTiesReversed(_, _, _)
SortedDescendingTiesReversed(items, i, sorted) ==
    IF i > Len(items) THEN sorted
    ELSE LET x == items[i]
             before == SelectSeq(sorted, LAMBDA y : DLess(x[2], y[2]))
             after == SelectSeq(sorted, LAMBDA y : DGeq(x[2], y[2]))
         IN SortedDescendingTiesReversed(items, i + 1,
                                         before \o <<x>> \o after)

\* sorted(items, key=lambda x: x[1], reverse=True): a stable sort, so items
\* with equal keys keep their order; items[1..i-1] are already in `sorted`
RECURSIVE SortedDescending(_, _, _)
SortedDescending(items, i, sorted) ==
    IF i > Len(items) THEN sorted
    ELSE LET x == items[i]
             before == SelectSeq(sorted, LAMBDA y : DGeq(y[2], x[2]))
             after == SelectSeq(sorted, LAMBDA y : DLess(y[2], x[2]))
         IN SortedDescending(items, i + 1, before \o <<x>> \o after)

\* for node in nodes: avg_similarities[node] = average similarity of node in
\* the cluster; from the i-th node on, d the dict built so far
RECURSIVE AvgSimilarities(_, _, _, _, _)
AvgSimilarities(nodes, cluster, g, i, d) ==
    IF i > Len(nodes) THEN d
    ELSE AvgSimilarities(nodes, cluster, g, i + 1,
             DictSet(d, nodes[i],
                     calculate_average_similarity(nodes[i], cluster, g)))

select_representatives(cluster, g, max_representatives) ==
    IF cluster = <<>> THEN <<>>
    ELSE IF Len(cluster) <= max_representatives THEN cluster
    ELSE LET avg_similarities == AvgSimilarities(cluster, cluster, g, 1, <<>>)
             sorted_submissions == SortedDescending(avg_similarities, 1, <<>>)
         IN [i \in 1..IF max_representatives < Len(sorted_submissions)
                      THEN max_representatives ELSE Len(sorted_submissions)
               |-> sorted_submissions[i][1]]

\* the coverage of node: the members of the cluster other than node, not yet
\* covered, that node has an edge of positive weight to
Coverage(node, cluster, g, covered) ==
    Len(SelectSeq(cluster,
                  LAMBDA o : /\ o # node
                             /\ o \notin covered
                             /\ FLess(FZero, get_edge_weight(g, node, o))))

\* the loop looking for the best node with `coverage >= best_coverage`: of the
\* nodes of the greatest coverage the last one wins
RECURSIVE BestNodeLoopLastTie(_, _, _, _, _, _, _)
BestNodeLoopLastTie(cluster, g, representatives_, covered, i, best, best_coverage) ==
    IF i > Len(cluster) THEN [best |-> best, best_coverage |-> best_coverage]
    ELSE LET node == cluster[i]
         IN IF \E j \in 1..Len(representatives_) : representatives_[j] = node
            THEN BestNodeLoopLastTie(cluster, g, representatives_, covered,
                                     i + 1, best, best_coverage)
            ELSE LET coverage == Coverage(node, cluster, g, covered)
                 IN IF coverage >= best_coverage
                    THEN BestNodeLoopLastTie(cluster, g, representatives_,
                                             covered, i + 1, <<node>>, coverage)
                    ELSE BestNodeLoopLastTie(cluster, g, representatives_,
                                             covered, i + 1, best,
                                             best_coverage)

\* the for loop of select_representatives_coverage that looks for the best
\* node, from the i-th member on; best is <<>> (None) or <<best_node>>
RECURSIVE BestNodeLoop(_, _, _, _, _, _, _)
BestNodeLoop(cluster, g, representatives_, covered, i, best, best_coverage) ==
    IF i > Len(cluster) THEN [best |-> best, best_coverage |-> best_coverage]
    ELSE LET node == cluster[i]
         IN IF \E j \in 1..Len(representatives_) : representatives_[j] = node
            THEN BestNodeLoop(cluster, g, representatives_, covered, i + 1,
                              best, best_coverage)
            ELSE LET coverage == Coverage(node, cluster, g, covered)
                 IN IF coverage > best_coverage
                    THEN BestNodeLoop(cluster, g, representatives_, covered,
                                      i + 1, <<node>>, coverage)
                    ELSE BestNodeLoop(cluster, g, representatives_, covered,
                                      i + 1, best, best_coverage)

\* the while loop of select_representatives_coverage: the representatives it
\* ends with
RECURSIVE CoverageLoop(_, _, _, _, _)
CoverageLoop(cluster, g, max_representatives, representatives_, covered) ==
    IF ~(Len(representatives_) < max_representatives
         /\ Cardinality(covered) < Len(cluster))
    THEN representatives_
    ELSE LET b == BestNodeLoop(cluster, g, representatives_, covered, 1,
                               <<>>, -1)
         IN IF b.best = <<>> \/ b.best_coverage = 0 THEN representatives_
            ELSE LET best_node == b.best[1]
                     covered1 == covered \cup {best_node}
                     newly == {cluster[j] : j \in
                                 {x \in 1..Len(cluster) :
                                    /\ cluster[x] # best_node
                                    /\ cluster[x] \notin covered1
                                    /\ FLess(FZero, get_edge_weight(
                                           g, best_node, cluster[x]))}}
                 IN CoverageLoop(cluster, g, max_representatives,
                                 Append(representatives_, best_node),
                                 covered1 \cup newly)

\* for node, _ in sorted_remaining: append until max_representatives
RECURSIVE FillLoop(_, _, _, _)
FillLoop(sorted_remaining, i, max_representatives, representatives_) ==
    IF i > Len(sorted_remaining) THEN representatives_
    ELSE IF Len(representatives_) >= max_representatives THEN representatives_
    ELSE FillLoop(sorted_remaining, i + 1, max_representatives,
                  Append(representatives_, sorted_remaining[i][1]))

\* select_representatives_coverage without the step that adds the nodes of the
\* highest average similarity
select_representatives_coverage_unfilled(cluster, g, max_representatives) ==
    IF cluster = <<>> THEN <<>>
    ELSE IF Len(cluster) <= max_representatives THEN cluster
    ELSE CoverageLoop(cluster, g, max_representatives, <<>>, {})

select_representatives_coverage(cluster, g, max_representatives) ==
    IF cluster = <<>> THEN <<>>
    ELSE IF Len(cluster) <= max_representatives THEN cluster
    ELSE LET chosen == CoverageLoop(cluster, g, max_representatives, <<>>, {})
         IN IF Len(chosen) < max_representatives
            THEN LET remaining ==
                         SelectSeq(cluster,
                                   LAMBDA n : \A j \in 1..Len(chosen) :
                                                  chosen[j] # n)
                     avg_similarities ==
                         AvgSimilarities(remaining, cluster, g, 1, <<>>)
                     sorted_remaining ==
                         SortedDescending(avg_similarities, 1, <<>>)
                 IN FillLoop(sorted_remaining, 1, max_representatives, chosen)
            ELSE chosen

----------------------------------------------------------------------------
(* bplus_tree.py *)
(* The node objects live in a heap: tree.nodes is the sequence of the nodes *)
(* created so far, a pointer is an index into it and None is 0.  A node is  *)
(* a record of the fields of BPlusTreeLeafNode and BPlusTreeInternalNode     *)
(* (a leaf has no children, an internal node no values and no next_leaf).   *)
(* Keys are integers standing for strings in their lexicographic order.     *)

\* the None pointer
None == 0

\* the None a node's insert returns when it did not split
NoSplit == <<>>

\* the None search returns for a key that is not found
NotFound == <<>>

\* BPlusTreeLeafNode(order)
BPlusTreeLeafNode ==
    [leaf |-> TRUE, keys |-> <<>>, values |-> <<>>, next_leaf |-> None,
     children |-> <<>>, parent |-> None]

\* BPlusTreeInternalNode(order)
BPlusTreeInternalNode ==
    [leaf |-> FALSE, keys |-> <<>>, values |-> <<>>, next_leaf |-> None,
     children |-> <<>>, parent |-> None]

\* BPlusTree(order).order
TreeOrder(o) == IF o < 3 THEN 3 ELSE o

\* BPlusTree(order): the root is an empty leaf
BPlusTree == [root |-> 1, nodes |-> <<BPlusTreeLeafNode>>]

\* list.insert(i, x) with 0-based i <= len(list)
ListInsert(list, i, x) ==
    SubSeq(list, 1, i) \o <<x>> \o SubSeq(list, i + 1, Len(list))

\* list[i:] and list[:i] with 0-based i
ListFrom(list, i) == SubSeq(list, i + 1, Len(list))
ListUpTo(list, i) == SubSeq(list, 1, i)

\* i = 0; while i < len(keys) and keys[i] < key: i += 1
RECURSIVE InsertPosition(_, _, _)
InsertPosition(keys, key, i) ==
    IF i < Len(keys) /\ keys[i + 1] < key THEN InsertPosition(keys, key, i + 1)
    ELSE i

\* BPlusTreeLeafNode.insert that gives the new leaf of a split no successor
leaf_insert_unlinked(nodes, leaf, key, value, order) ==
    LET self == nodes[leaf]
        i == InsertPosition(self.keys, key, 0)
    IN IF i < Len(self.keys) /\ self.keys[i + 1] = key
       THEN [nodes |-> [nodes EXCEPT ![leaf].values[i + 1] = value],
             result |-> NoSplit]
       ELSE LET keys == ListInsert(self.keys, i, key)
                values == ListInsert(self.values, i, value)
            IN IF Len(keys) <= order - 1
               THEN [nodes |-> [nodes EXCEPT ![leaf].keys = keys,
                                             ![leaf].values = values],
                     result |-> NoSplit]
               ELSE LET median == Len(keys) \div 2
                        new_node == [BPlusTreeLeafNode EXCEPT
                                        !.keys = ListFrom(keys, median),
                                        !.values = ListFrom(values, median)]
                        new == Len(nodes) + 1
                    IN [nodes |-> Append([nodes EXCEPT
                                    ![leaf].keys = ListUpTo(keys, median),
                                    ![leaf].values = ListUpTo(values, median),
                                    ![leaf].next_leaf = new], new_node),
                        result |-> <<new_node.keys[1], leaf, new>>]

\* BPlusTreeLeafNode.insert without the test for a key already present
leaf_insert_no_update(nodes, leaf, key, value, order) ==
    LET self == nodes[leaf]
        i == InsertPosition(self.keys, key, 0)
        keys == ListInsert(self.keys, i, key)
        values == ListInsert(self.values, i, value)
    IN IF Len(keys) <= order - 1
       THEN [nodes |-> [nodes EXCEPT ![leaf].keys = keys,
                                     ![leaf].values = values],
             result |-> NoSplit]
       ELSE LET median == Len(keys) \div 2
                new_node == [BPlusTreeLeafNode EXCEPT
                                !.keys = ListFrom(keys, median),
                                !.values = ListFrom(values, median),
                                !.next_leaf = self.next_leaf]
                new == Len(nodes) + 1
            IN [nodes |-> Append([nodes EXCEPT
                            ![leaf].keys = ListUpTo(keys, median),
                            ![leaf].values = ListUpTo(values, median),
                            ![leaf].next_leaf = new], new_node),
                result |-> <<new_node.keys[1], leaf, new>>]

\* BPlusTreeLeafNode.insert on the node at pointer leaf: the heap after the
\* call and the value returned (NoSplit, or <<median_key, left, right>>)
leaf_insert(nodes, leaf, key, value, order) ==
    LET self == nodes[leaf]
        i == InsertPosition(self.keys, key, 0)
    IN IF i < Len(self.keys) /\ self.keys[i + 1] = key
       THEN [nodes |-> [nodes EXCEPT ![leaf].values[i + 1] = value],
             result |-> NoSplit]
       ELSE LET keys == ListInsert(self.keys, i, key)
                values == ListInsert(self.values, i, value)
            IN IF Len(keys) <= order - 1
               THEN [nodes |-> [nodes EXCEPT ![leaf].keys = keys,
                                             ![leaf].values = values],
                     result |-> NoSplit]
               ELSE LET median == Len(keys) \div 2
                        new_node == [BPlusTreeLeafNode EXCEPT
                                        !.keys = ListFrom(keys, median),
                                        !.values = ListFrom(values, median),
                                        !.next_leaf = self.next_leaf]
                        new == Len(nodes) + 1
                    IN [nodes |-> Append([nodes EXCEPT
                                    ![leaf].keys = ListUpTo(keys, median),
                                    ![leaf].values = ListUpTo(values, median),
                                    ![leaf].next_leaf = new], new_node),
                        result |-> <<new_node.keys[1], leaf, new>>]

\* BPlusTreeLeafNode.search
RECURSIVE LeafSearchLoop(_, _, _)
LeafSearchLoop(node, key, i) ==
    IF i > Len(node.keys) THEN NotFound
    ELSE IF node.keys[i] = key THEN node.values[i]
    ELSE LeafSearchLoop(node, key, i + 1)

leaf_search(node, key) == LeafSearchLoop(node, key, 1)

\* child.parent = ptr for every child of the list, from the i-th on
RECURSIVE SetParents(_, _, _, _)
SetParents(nodes, children, i, ptr) ==
    IF i > Len(children) THEN nodes
    ELSE SetParents([nodes EXCEPT ![children[i]].parent = ptr],
                    children, i + 1, ptr)

\* BPlusTreeInternalNode.insert on the node at pointer node: the heap after
\* the call and the value returned
internal_insert(nodes, node, key, left_child, right_child, order) ==
    LET self == nodes[node]
        i == InsertPosition(self.keys, key, 0)
        keys == ListInsert(self.keys, i, key)
        children == ListInsert(self.children, i + 1, right_child)
        nodes1 == [nodes EXCEPT ![node].keys = keys,
                                ![node].children = children,
                                ![left_child].parent = node,
                                ![right_child].parent = node]
    IN IF Len(keys) <= order - 1 THEN [nodes |-> nodes1, result |-> NoSplit]
       ELSE LET median == Len(keys) \div 2
                median_key == keys[median + 1]
                new_node == [BPlusTreeInternalNode EXCEPT
                                !.keys = ListFrom(keys, median + 1),
                                !.children = ListFrom(children, median + 1)]
                new == Len(nodes1) + 1
                nodes2 == SetParents(Append(nodes1, new_node),
                                     new_node.children, 1, new)
            IN [nodes |-> [nodes2 EXCEPT
                             ![node].keys = ListUpTo(keys, median),
                             ![node].children = ListUpTo(children, median + 1)],
                result |-> <<median_key, node, new>>]

\* i = 0; while i < len(keys) and key >= keys[i]: i += 1
RECURSIVE SearchPosition(_, _, _)
SearchPosition(keys, key, i) ==
    IF i < Len(keys) /\ key >= keys[i + 1] THEN SearchPosition(keys, key, i + 1)
    ELSE i

\* i = 0; while i < len(keys) and key > keys[i]: i += 1
RECURSIVE SearchPositionStrict(_, _, _)
SearchPositionStrict(keys, key, i) ==
    IF i < Len(keys) /\ key > keys[i + 1]
    THEN SearchPositionStrict(keys, key, i + 1)
    ELSE i

\* BPlusTreeInternalNode.search sending a key equal to a separator to the left
internal_search_strict(node, key) ==
    node.children[SearchPositionStrict(node.keys, key, 0) + 1]

\* BPlusTreeInternalNode.search: the pointer to the child that should hold key
internal_search(node, key) ==
    node.children[SearchPosition(node.keys, key, 0) + 1]

\* the while loop of _find_leaf from the node at pointer node
RECURSIVE FindLeafLoop(_, _, _)
FindLeafLoop(nodes, node, key) ==
    IF nodes[node].leaf THEN node
    ELSE FindLeafLoop(nodes, internal_search(nodes[node], key), key)

find_leaf(t, key) == FindLeafLoop(t.nodes, t.root, key)

\* the new root both insert and _insert_in_parent create after a root split
NewRoot(nodes, result) ==
    LET new_root == [BPlusTreeInternalNode EXCEPT
                        !.keys = <<result[1]>>,
                        !.children = <<result[2], result[3]>>]
        new == Len(nodes) + 1
    IN [root |-> new,
        nodes |-> [Append(nodes, new_root) EXCEPT ![result[2]].parent = new,
                                                  ![result[3]].parent = new]]

\* _insert_in_parent that gives the new root the child it was called with
\* instead of the node the split created
RECURSIVE insert_in_parent_wrong_child(_, _, _, _, _, _)
insert_in_parent_wrong_child(t, parent, key, left_child, right_child, order) ==
    LET r == internal_insert(t.nodes, parent, key, left_child, right_child,
                             order)
    IN IF r.result = NoSplit THEN [root |-> t.root, nodes |-> r.nodes]
       ELSE IF parent = t.root
            THEN NewRoot(r.nodes, <<r.result[1], r.result[2], right_child>>)
       ELSE insert_in_parent_wrong_child(
                [root |-> t.root, nodes |-> r.nodes], r.nodes[parent].parent,
                r.result[1], r.result[2], r.result[3], order)

\* _insert_in_parent: the tree after the call
RECURSIVE insert_in_parent(_, _, _, _, _, _)
insert_in_parent(t, parent, key, left_child, right_child, order) ==
    LET r == internal_insert(t.nodes, parent, key, left_child, right_child,
                             order)
    IN IF r.result = NoSplit THEN [root |-> t.root, nodes |-> r.nodes]
       ELSE IF parent = t.root THEN NewRoot(r.nodes, r.result)
       ELSE insert_in_parent([root |-> t.root, nodes |-> r.nodes],
                             r.nodes[parent].parent,
                             r.result[1], r.result[2], r.result[3], order)

\* BPlusTree.insert: the tree after the call
insert(t, key, value, order) ==
    LET leaf == find_leaf(t, key)
        r == leaf_insert(t.nodes, leaf, key, value, order)
    IN IF r.result = NoSplit THEN [root |-> t.root, nodes |-> r.nodes]
       ELSE IF leaf = t.root THEN NewRoot(r.nodes, r.result)
       ELSE insert_in_parent([root |-> t.root, nodes |-> r.nodes],
                             r.nodes[leaf].parent,
                             r.result[1], r.result[2], r.result[3], order)

\* BPlusTree.search
search(t, key) == leaf_search(t.nodes[find_leaf(t, key)], key)

\* the for loop of range_search over the keys of one leaf, from the i-th on:
\* the results so far and whether the function returned inside the loop
RECURSIVE RangeLeafLoop(_, _, _, _, _)
RangeLeafLoop(node, start_key, end_key, i, found) ==
    IF i > Len(node.keys) THEN [results |-> found, returned |-> FALSE]
    ELSE LET key == node.keys[i]
         IN IF start_key <= key /\ key <= end_key
            THEN RangeLeafLoop(node, start_key, end_key, i + 1,
                               Append(found, <<key, node.values[i]>>))
            ELSE IF key > end_key
                 THEN [results |-> found, returned |-> TRUE]
                 ELSE RangeLeafLoop(node, start_key, end_key, i + 1, found)

\* the while loop of range_search from the leaf at pointer leaf
RECURSIVE RangeLoop(_, _, _, _, _)
RangeLoop(nodes, leaf, start_key, end_key, found) ==
    IF leaf = None THEN found
    ELSE LET r == RangeLeafLoop(nodes[leaf], start_key, end_key, 1, found)
         IN IF r.returned THEN r.results
            ELSE RangeLoop(nodes, nodes[leaf].next_leaf, start_key, end_key,
                           r.results)

\* BPlusTree.range_search
range_search(t, start_key, end_key) ==
    RangeLoop(t.nodes, find_leaf(t, start_key), start_key, end_key, <<>>)

----------------------------------------------------------------------------
(* code_parser.py *)
(* A str is the sequence of its characters, each a one-character string.    *)

\* CodeParser.COMMON_KEYWORDS
COMMON_KEYWORDS ==
    {<<"i", "f">>, <<"e", "l", "s", "e">>, <<"f", "o", "r">>,
     <<"w", "h", "i", "l", "e">>, <<"r", "e", "t", "u", "r", "n">>,
     <<"f", "u", "n", "c", "t", "i", "o", "n">>, <<"c", "l", "a", "s", "s">>,
     <<"d", "e", "f">>, <<"i", "n", "t">>, <<"f", "l", "o", "a", "t">>,
     <<"s", "t", "r", "i", "n", "g">>, <<"b", "o", "o", "l">>,
     <<"t", "r", "u", "e">>, <<"f", "a", "l", "s", "e">>,
     <<"n", "u", "l", "l">>, <<"N", "o", "n", "e">>,
     <<"p", "u", "b", "l", "i", "c">>, <<"p", "r", "i", "v", "a", "t", "e">>,
     <<"p", "r", "o", "t", "e", "c", "t", "e", "d">>,
     <<"s", "t", "a", "t", "i", "c">>, <<"v", "o", "i", "d">>,
     <<"i", "m", "p", "o", "r", "t">>, <<"f", "r", "o", "m">>}

\* the placeholder that replaces a string literal
STRING_LITERAL == <<"S", "T", "R", "I", "N", "G", "_", "L", "I", "T", "E", "R", "A", "L">>

\* A str is a tuple of characters and a character is a one-character string.
\* The characters of the model are U+0000..U+00FF and the characters listed
\* in Beyond (letters, decimal digits and a symbol of other scripts, and
\* every whitespace character above U+00FF). A character that cannot be
\* written in a string here stands as "U+" and its code point, the backtick
\* as "BACKTICK".
Backtick == "BACKTICK"

\* chr(0) .. chr(255): Latin1[i] is chr(i - 1)
Latin1 ==
    <<"U+0000", "", "", "", "", "", "", "", "", "\t", "\n", "", "\f",
      "\r", "", "", "", "", "", "", "", "", "", "", "", "", "",
      "", "", "", "", "", " ", "!", "\"", "#", "$", "%", "&", "'", "(",
      ")", "*", "+", ",", "-", ".", "/", "0", "1", "2", "3", "4", "5", "6",
      "7", "8", "9", ":", ";", "<", "=", ">", "?", "@", "A", "B", "C", "D",
      "E", "F", "G", "H", "I", "J", "K", "L", "M", "N", "O", "P", "Q", "R",
      "S", "T", "U", "V", "W", "X", "Y", "Z", "[", "\\", "]", "^", "_",
      Backtick, "a", "b", "c", "d", "e", "f", "g", "h", "i", "j", "k", "l",
      "m", "n", "o", "p", "q", "r", "s", "t", "u", "v", "w", "x", "y", "z",
      "{", "|", "}", "~", "", "", "", "", "", "", "", "", "", "",
      "", "", "", "", "", "", "", "", "", "", "", "", "", "",
      "", "", "", "", "", "", "", "", "", " ", "¡", "¢", "£", "¤",
      "¥", "¦", "§", "¨", "©", "ª", "«", "¬", "­", "®", "¯", "°", "±", "²",
      "³", "´", "µ", "¶", "·", "¸", "¹", "º", "»", "¼", "½", "¾", "¿", "À",
      "Á", "Â", "Ã", "Ä", "Å", "Æ", "Ç", "È", "É", "Ê", "Ë", "Ì", "Í", "Î",
      "Ï", "Ð", "Ñ", "Ò", "Ó", "Ô", "Õ", "Ö", "×", "Ø", "Ù", "Ú", "Û", "Ü",
      "Ý", "Þ", "ß", "à", "á", "â", "ã", "ä", "å", "æ", "ç", "è", "é", "ê",
      "ë", "ì", "í", "î", "ï", "ð", "ñ", "ò", "ó", "ô", "õ", "ö", "÷", "ø",
      "ù", "ú", "û", "ü", "ý", "þ", "ÿ">>

\* the characters above U+00FF, each with its code point
Beyond ==
    <<<<"λ", 955>>, <<"۱", 1777>>, <<"߁", 1985>>, <<"১", 2535>>,
      <<"໑", 3793>>, <<" ", 5760>>, <<"U+2000", 8192>>, <<"U+2001", 8193>>,
      <<"U+2002", 8194>>, <<"U+2003", 8195>>, <<"U+2004", 8196>>,
      <<"U+2005", 8197>>, <<"U+2006", 8198>>, <<"U+2007", 8199>>,
      <<"U+2008", 8200>>, <<"U+2009", 8201>>, <<"U+200A", 8202>>,
      <<"U+2028", 8232>>, <<"U+2029", 8233>>, <<"U+202F", 8239>>,
      <<"U+205F", 8287>>, <<"€", 8364>>, <<"U+3000", 12288>>>>

\* [A-Za-z] of the token pattern
Letters ==
    {"a", "b", "c", "d", "e", "f", "g", "h", "i", "j", "k", "l", "m", "n",
     "o", "p", "q", "r", "s", "t", "u", "v", "w", "x", "y", "z", "A", "B",
     "C", "D", "E", "F", "G", "H", "I", "J", "K", "L", "M", "N", "O", "P",
     "Q", "R", "S", "T", "U", "V", "W", "X", "Y", "Z"}

\* the characters c above U+007F with c.isalpha()
OtherLetters ==
    {"ª", "µ", "º", "À", "Á", "Â", "Ã", "Ä", "Å", "Æ", "Ç", "È", "É", "Ê",
     "Ë", "Ì", "Í", "Î", "Ï", "Ð", "Ñ", "Ò", "Ó", "Ô", "Õ", "Ö", "Ø", "Ù",
     "Ú", "Û", "Ü", "Ý", "Þ", "ß", "à", "á", "â", "ã", "ä", "å", "æ", "ç",
     "è", "é", "ê", "ë", "ì", "í", "î", "ï", "ð", "ñ", "ò", "ó", "ô", "õ",
     "ö", "ø", "ù", "ú", "û", "ü", "ý", "þ", "ÿ", "λ"}

\* the characters c with c.isspace(), which are the characters that \s of a
\* str pattern matches
Whitespace ==
    {"\t", "\n", "", "\f", "\r", "", "", "", "", " ", "", " ", " ",
     "U+2000", "U+2001", "U+2002", "U+2003", "U+2004", "U+2005", "U+2006",
     "U+2007", "U+2008", "U+2009", "U+200A", "U+2028", "U+2029", "U+202F",
     "U+205F", "U+3000"}

\* the characters above U+007F that \d of a str pattern matches
OtherDigits ==
    {"۱", "߁", "১", "໑"}

isalpha(c) == c \in Letters \cup OtherLetters

\* token.isspace(): not empty and whitespace only
isspace(token) ==
    token # <<>> /\ \A i \in 1..Len(token) : token[i] \in Whitespace

\* str(n) for n >= 0
RECURSIVE Decimal(_)
Decimal(n) ==
    LET digit == <<"0", "1", "2", "3", "4", "5", "6", "7", "8", "9">>[(n % 10) + 1]
    IN IF n < 10 THEN <<digit>> ELSE Append(Decimal(n \div 10), digit)

\* f"VAR_{var_counter}"
VarName(var_counter) == <<"V", "A", "R", "_">> \o Decimal(var_counter)

\* the normalisation loop of tokenize from the i-th token on; var_map is a
\* dict from names to placeholders
RECURSIVE NormalizeLoop(_, _, _, _, _)
NormalizeLoop(toks, i, normalized, var_map, var_counter) ==
    IF i > Len(toks) THEN normalized
    ELSE LET token == toks[i]
         IN IF isspace(token) \/ token = <<>>
            THEN NormalizeLoop(toks, i + 1, normalized, var_map, var_counter)
            ELSE IF \/ token \in COMMON_KEYWORDS
                    \/ ~isalpha(token[1])
                    \/ token = STRING_LITERAL
            THEN NormalizeLoop(toks, i + 1, Append(normalized, token),
                               var_map, var_counter)
            ELSE IF isalpha(token[1]) \/ token[1] = "_"
            THEN IF ~DictHas(var_map, token)
                 THEN NormalizeLoop(toks, i + 1,
                                    Append(normalized, VarName(var_counter)),
                                    DictSet(var_map, token,
                                            VarName(var_counter)),
                                    var_counter + 1)
                 ELSE NormalizeLoop(toks, i + 1,
                                    Append(normalized, DictGet(var_map, token)),
                                    var_map, var_counter)
            ELSE NormalizeLoop(toks, i + 1, Append(normalized, token),
                               var_map, var_counter)

\* tokenize from the list patterns['token'].findall(code) on: the normalized
\* tokens
normalize(toks) == NormalizeLoop(toks, 1, <<>>, <<>>, 0)

\* the text has p at position i
StartsWith(code, i, p) ==
    /\ i + Len(p) - 1 <= Len(code)
    /\ SubSeq(code, i, i + Len(p) - 1) = p

\* the alternatives of the 'comment' pattern of a language, in their order:
\* <<"line", opening, <<>>>> is opening.*?$ and <<"block", opening, closing>>
\* is opening.*?closing; a language without patterns gets those of python
CommentPatterns(lang) ==
    IF lang \in {"java", "cpp", "javascript"}
    THEN <<<<"line", <<"/", "/">>, <<>>>>,
           <<"block", <<"/", "*">>, <<"*", "/">>>>>>
    ELSE <<<<"line", <<"#">>, <<>>>>,
           <<"block", <<"\"", "\"", "\"">>, <<"\"", "\"", "\"">>>>,
           <<"block", <<"'", "'", "'">>, <<"'", "'", "'">>>>>>

\* the quotes of the 'string' pattern of a language
StringQuotes(lang) ==
    IF lang \in {"java", "cpp"} THEN {"\""}
    ELSE IF lang = "javascript" THEN {"\"", "'", Backtick}
    ELSE {"\"", "'"}

\* .*?$ from position i on, with re.MULTILINE and re.DOTALL: the first
\* position that is the end of the text or holds a newline
RECURSIVE LineEnd(_, _)
LineEnd(code, i) ==
    IF i > Len(code) \/ code[i] = "\n" THEN i ELSE LineEnd(code, i + 1)

\* .*?closing from position i on: the position after the first closing, 0
\* when there is none
RECURSIVE BlockEnd(_, _, _)
BlockEnd(code, i, closing) ==
    IF i + Len(closing) - 1 > Len(code) THEN 0
    ELSE IF StartsWith(code, i, closing) THEN i + Len(closing)
    ELSE BlockEnd(code, i + 1, closing)

\* the position after the match of the comment pattern at position i, trying
\* the alternatives from the k-th on; 0 when there is no match at i
RECURSIVE CommentMatch(_, _, _, _)
CommentMatch(alts, k, code, i) ==
    IF k > Len(alts) THEN 0
    ELSE LET a == alts[k]
             e == IF ~StartsWith(code, i, a[2]) THEN 0
                  ELSE IF a[1] = "line" THEN LineEnd(code, i + Len(a[2]))
                  ELSE BlockEnd(code, i + Len(a[2]), a[3])
         IN IF e # 0 THEN e ELSE CommentMatch(alts, k + 1, code, i)

\* patterns['comment'].sub('', code) from position i on
RECURSIVE StripLoop(_, _, _, _)
StripLoop(alts, code, i, out) ==
    IF i > Len(code) THEN out
    ELSE LET e == CommentMatch(alts, 1, code, i)
         IN IF e # 0 THEN StripLoop(alts, code, e, out)
            ELSE StripLoop(alts, code, i + 1, Append(out, code[i]))

StripComments(code, lang) == StripLoop(CommentPatterns(lang), code, 1, <<>>)

\* (?:\\.|[^q\\])*q from position i on: the position after the closing quote
\* q, 0 when there is no match
RECURSIVE StringEnd(_, _, _)
StringEnd(code, i, q) ==
    IF i > Len(code) THEN 0
    ELSE IF code[i] = q THEN i + 1
    ELSE IF code[i] = "\\"
    THEN IF i + 1 > Len(code) THEN 0 ELSE StringEnd(code, i + 2, q)
    ELSE StringEnd(code, i + 1, q)

\* patterns['string'].sub(replace_string, code) from position i on
RECURSIVE ReplaceLoop(_, _, _, _)
ReplaceLoop(quotes, code, i, out) ==
    IF i > Len(code) THEN out
    ELSE LET e == IF code[i] \in quotes THEN StringEnd(code, i + 1, code[i])
                  ELSE 0
         IN IF e # 0 THEN ReplaceLoop(quotes, code, e, out \o STRING_LITERAL)
            ELSE ReplaceLoop(quotes, code, i + 1, Append(out, code[i]))

ReplaceStrings(code, lang) == ReplaceLoop(StringQuotes(lang), code, 1, <<>>)

\* [0-9], [A-Za-z_] and [A-Za-z0-9_] of the token pattern
Digits == {"0", "1", "2", "3", "4", "5", "6", "7", "8", "9"}
IdentifierStart == Letters \cup {"_"}
IdentifierPart == IdentifierStart \cup Digits

\* the characters that \d of the token pattern matches: every Unicode decimal
\* digit
DecimalDigits == Digits \cup OtherDigits

\* the position after the longest run of characters of S from position i on
RECURSIVE RunEnd(_, _, _)
RunEnd(code, i, S) ==
    IF i > Len(code) \/ code[i] \notin S THEN i ELSE RunEnd(code, i + 1, S)

\* patterns['token'].findall(code) from position i on
RECURSIVE FindallLoop(_, _, _)
FindallLoop(code, i, toks) ==
    IF i > Len(code) THEN toks
    ELSE LET e == IF code[i] \in IdentifierStart
                  THEN RunEnd(code, i + 1, IdentifierPart)
                  ELSE IF code[i] \in DecimalDigits
                  THEN RunEnd(code, i + 1, DecimalDigits)
                  ELSE i + 1
         IN IF code[i] \in Whitespace THEN FindallLoop(code, i + 1, toks)
            ELSE FindallLoop(code, e, Append(toks, SubSeq(code, i, e - 1)))

\* CodeParser.tokenize
tokenize(code, lang) ==
    normalize(FindallLoop(ReplaceStrings(StripComments(code, lang), lang),
                          1, <<>>))

ClassKeyword == <<"c", "l", "a", "s", "s">>
DefKeyword == <<"d", "e", "f">>

\* the for loop of _extract_blocks from the i-th token on
RECURSIVE ExtractLoop(_, _, _, _, _)
ExtractLoop(toks, i, blocks_, current_block, block_level) ==
    IF i > Len(toks)
    THEN IF current_block # <<>> THEN Append(blocks_, current_block)
         ELSE blocks_
    ELSE LET token == toks[i]
         IN IF token \in {ClassKeyword, DefKeyword}
            THEN IF block_level = 0
                 THEN ExtractLoop(toks, i + 1,
                                  IF current_block # <<>>
                                  THEN Append(blocks_, current_block)
                                  ELSE blocks_,
                                  <<token>>, block_level + 1)
                 ELSE ExtractLoop(toks, i + 1, blocks_,
                                  Append(current_block, token),
                                  block_level + 1)
            ELSE IF token = <<"{">>
            THEN ExtractLoop(toks, i + 1, blocks_,
                             Append(current_block, token), block_level + 1)
            ELSE IF token = <<"}">>
            THEN IF block_level - 1 = 0
                 THEN ExtractLoop(toks, i + 1,
                                  Append(blocks_, Append(current_block, token)),
                                  <<>>, block_level - 1)
                 ELSE ExtractLoop(toks, i + 1, blocks_,
                                  Append(current_block, token),
                                  block_level - 1)
            ELSE ExtractLoop(toks, i + 1, blocks_,
                             Append(current_block, token), block_level)

\* CodeParser._extract_blocks
extract_blocks(toks) == ExtractLoop(toks, 1, <<>>, <<>>, 0)

\* ord(c)
CodePoint(c) ==
    IF \E i \in 1..Len(Latin1) : Latin1[i] = c
    THEN (CHOOSE i \in 1..Len(Latin1) : Latin1[i] = c) - 1
    ELSE Beyond[CHOOSE i \in 1..Len(Beyond) : Beyond[i][1] = c][2]

\* ''.join(b)
RECURSIVE JoinTokens(_)
JoinTokens(b) == IF b = <<>> THEN <<>> ELSE Head(b) \o JoinTokens(Tail(b))

\* s < t for two str
RECURSIVE StrLess(_, _)
StrLess(s, t) ==
    IF t = <<>> THEN FALSE
    ELSE IF s = <<>> THEN TRUE
    ELSE IF Head(s) # Head(t) THEN CodePoint(Head(s)) < CodePoint(Head(t))
    ELSE StrLess(Tail(s), Tail(t))

\* sorted(blocks, key=lambda b: ''.join(b)): a stable sort; bs[1..i-1] are
\* already in `sorted`
RECURSIVE SortedBlocks(_, _, _)
SortedBlocks(bs, i, sorted) ==
    IF i > Len(bs) THEN sorted
    ELSE LET x == bs[i]
             before == SelectSeq(sorted,
                           LAMBDA y : ~StrLess(JoinTokens(x), JoinTokens(y)))
             after == SelectSeq(sorted,
                          LAMBDA y : StrLess(JoinTokens(x), JoinTokens(y)))
         IN SortedBlocks(bs, i + 1, before \o <<x>> \o after)

\* CodeParser.tokenize_block_insensitive
tokenize_block_insensitive(code, lang) ==
    JoinTokens(SortedBlocks(extract_blocks(tokenize(code, lang)), 1, <<>>))

----------------------------------------------------------------------------
(* plagiarism_detector.py *)
(* A metadata dict is the sequence of its <<key, value>> pairs; None and    *)
(* the empty dict are both <<>>, the code tells them apart nowhere (it only *)
(* tests `if metadata`).  The metadata store is a B+ tree, whose keys stand *)
(* for strings in lexicographic order: a submission id is stood for by its  *)
(* rank among the file names of the model.                                   *)

\* os.path.basename of a path given as the sequence of its components
basename(file_path) == file_path[Len(file_path)]

\* the file names of the model, in lexicographic order
FileNames == <<"a.py", "b.py", "c.py", "d.py", "e.py">>

\* the B+ tree key of a submission id
IdKey(submission_id) ==
    CHOOSE i \in 1..Len(FileNames) : FileNames[i] = submission_id

\* the for loop of _update_graph_with_submission using a one-sided score
RECURSIVE UpdateGraphLoopOneSided(_, _, _, _, _)
UpdateGraphLoopOneSided(subs, i, g, threshold, new_submission_id) ==
    IF i > Len(subs) THEN g
    ELSE LET existing_id == subs[i][1]
             existing_tokens == subs[i][2]
             new_tokens == DictGet(subs, new_submission_id)
         IN IF existing_id = new_submission_id
            THEN UpdateGraphLoopOneSided(subs, i + 1, g, threshold,
                                         new_submission_id)
            ELSE LET sim == calculate_similarity_containment(
                                new_tokens, existing_tokens, DefaultKGramSize)
                 IN UpdateGraphLoopOneSided(subs, i + 1,
                        IF FGeq(sim, threshold)
                        THEN add_edge(g, threshold, new_submission_id,
                                      existing_id, sim)
                        ELSE g,
                        threshold, new_submission_id)

\* the for loop of _update_graph_with_submission from the i-th item of
\* self.submissions on
RECURSIVE UpdateGraphLoop(_, _, _, _, _)
UpdateGraphLoop(subs, i, g, threshold, new_submission_id) ==
    IF i > Len(subs) THEN g
    ELSE LET existing_id == subs[i][1]
             existing_tokens == subs[i][2]
             new_tokens == DictGet(subs, new_submission_id)
         IN IF existing_id = new_submission_id
            THEN UpdateGraphLoop(subs, i + 1, g, threshold, new_submission_id)
            ELSE LET sim == calculate_similarity(new_tokens, existing_tokens,
                                                 DefaultKGramSize)
                 IN UpdateGraphLoop(subs, i + 1,
                        IF FGeq(sim, threshold)
                        THEN add_edge(g, threshold, new_submission_id,
                                      existing_id, sim)
                        ELSE g,
                        threshold, new_submission_id)

update_graph_with_submission(subs, g, threshold, new_submission_id) ==
    UpdateGraphLoop(subs, 1, g, threshold, new_submission_id)

\* the submissions, the metadata store and the graph of a detector just
\* constructed
PlagiarismDetector ==
    [submissions |-> <<>>, metadata_store |-> BPlusTree, graph |-> <<>>]

\* add_submission(file_path, metadata) on the detector state d, where
\* parse_file(file_path) yields tokens: the state after the call
add_submission(d, threshold, file_path, tokens, metadata) ==
    LET submission_id == basename(file_path)
        subs2 == DictSet(d.submissions, submission_id, tokens)
    IN [submissions |-> subs2,
        metadata_store |->
            IF metadata # <<>>
            THEN insert(d.metadata_store, IdKey(submission_id), metadata,
                        DefaultOrder)
            ELSE d.metadata_store,
        graph |-> update_graph_with_submission(subs2, d.graph, threshold,
                                               submission_id)]

\* the record detect_plagiarism builds for one cluster; the metadata of a
\* submission that has none in the store is None (NotFound)
ClusterRecord(cluster, g, store) ==
    [cluster |-> [i \in 1..Len(cluster) |->
                     [id |-> cluster[i],
                      metadata |-> search(store, IdKey(cluster[i]))]],
     representatives |->
         select_representatives(cluster, g, DefaultMaxRepresentatives)]

\* detect_plagiarism keeping only the clusters of more than two submissions
detect_plagiarism_over_two(g, store) ==
    LET found == find_clusters(g, DefaultMinClusterSize)
        kept == SelectSeq(found, LAMBDA c : Len(c) > 2)
    IN [i \in 1..Len(kept) |-> ClusterRecord(kept[i], g, store)]

detect_plagiarism(g, store) ==
    LET found == find_clusters(g, DefaultMinClusterSize)
        kept == SelectSeq(found, LAMBDA c : Len(c) > 1)
    IN [i \in 1..Len(kept) |-> ClusterRecord(kept[i], g, store)]

\* A line of the metadata file, after strip() and split(','), is the
\* sequence of its parts: the first is the submission id, and a later part is
\* <<key, value>> when it holds a '=' (cut at the first one) and <<text>>
\* when it holds none.

\* the dict batch_process builds of the parts of one line after the first
RECURSIVE SubmissionMetadata(_, _, _)
SubmissionMetadata(parts, i, submission_metadata) ==
    IF i > Len(parts) THEN submission_metadata
    ELSE SubmissionMetadata(parts, i + 1,
             IF Len(parts[i]) = 2
             THEN DictSet(submission_metadata, parts[i][1], parts[i][2])
             ELSE submission_metadata)

\* the loop of batch_process over the lines of the metadata file, from the
\* i-th on: the dict from submission ids to metadata dicts
RECURSIVE LoadMetadata(_, _, _)
LoadMetadata(lines, i, metadata) ==
    IF i > Len(lines) THEN metadata
    ELSE LoadMetadata(lines, i + 1,
             IF Len(lines[i]) > 1
             THEN DictSet(metadata, lines[i][1],
                          SubmissionMetadata(lines[i], 2, <<>>))
             ELSE metadata)

\* metadata.get(submission_id, {})
MetadataGet(metadata, submission_id) ==
    IF DictHas(metadata, submission_id) THEN DictGet(metadata, submission_id)
    ELSE <<>>

\* the loop of batch_process over os.listdir(directory), from the i-th entry
\* on; an entry is its name, whether it is a file, and the tokens parse_file
\* yields for it
RECURSIVE BatchLoop(_, _, _, _, _, _)
BatchLoop(d, threshold, directory, listing, i, metadata) ==
    IF i > Len(listing) THEN d
    ELSE LET file_path == <<directory, listing[i].name>>
         IN BatchLoop(IF listing[i].isfile
                      THEN add_submission(d, threshold, file_path,
                                          listing[i].tokens,
                                          MetadataGet(metadata,
                                                      basename(file_path)))
                      ELSE d,
                      threshold, directory, listing, i + 1, metadata)

\* batch_process(directory, metadata_file) on the detector state d: the state
\* after the call and the value returned
batch_process(d, threshold, directory, listing, lines) ==
    LET after == BatchLoop(d, threshold, directory, listing, 1,
                           LoadMetadata(lines, 1, <<>>))
    IN [state |-> after,
        returned |-> detect_plagiarism(after.graph, after.metadata_store)]

----------------------------------------------------------------------------
(* The components a specification does not exercise stay as constructed. *)

\* no RabinKarp call made, no graph built, no submission added
Idle1 ==
    /\ tokens1 = <<>>
    /\ tokens2 = <<>>
    /\ k_gram_size = DefaultKGramSize
    /\ similarity = NoResult
    /\ similarity_threshold = FZero
    /\ graph = <<>>
    /\ min_cluster_size = DefaultMinClusterSize
    /\ clusters = NoResult
    /\ submissions = <<>>
    /\ results = NoResult
    /\ resubmissions = 0

\* no B+ tree constructed, no selection made, nothing tokenized
Idle2 ==
    /\ last_call = NoResult
    /\ tree_order = DefaultOrder
    /\ tree = NoResult
    /\ inserted = NoResult
    /\ sel_cluster = <<>>
    /\ sel_max = DefaultMaxRepresentatives
    /\ representatives = NoResult
    /\ code_tokens = <<>>
    /\ normalized_tokens = NoResult

\* nothing parsed from a text, no coverage selection under way, no call
\* recorded, no subgraph taken, no matching sequences looked for, no metadata
\* file and nothing in the metadata store
Idle3 ==
    /\ language = "generic"
    /\ source = <<>>
    /\ source2 = <<>>
    /\ edit = NoResult
    /\ parsed = NoResult
    /\ parsed2 = NoResult
    /\ blocks = NoResult
    /\ cov = NoResult
    /\ call = NoResult
    /\ subgraph = NoResult
    /\ matching_sequences = NoResult
    /\ metadata_file = <<>>
    /\ metadata_store = BPlusTree

vars1 == <<tokens1, tokens2, k_gram_size, similarity, similarity_threshold,
           graph, min_cluster_size, clusters, submissions, results,
           resubmissions>>

----------------------------------------------------------------------------
(* SpecSim: calculate_similarity applied to arbitrary token lists *)

\* Tokens are arbitrary strings; "a a" holds the separator used by the join.
SimTokens == {"a", "b", "a a"}

TokenLists(n) == UNION {[1..m -> SimTokens] : m \in 0..n}

InitSim ==
    /\ tokens1 \in TokenLists(MaxLen)
    /\ tokens2 \in TokenLists(MaxLen)
    /\ k_gram_size \in 1..MaxK
    /\ similarity = NoResult
    /\ similarity_threshold = FZero
    /\ graph = <<>>
    /\ min_cluster_size = 2
    /\ clusters = NoResult
    /\ submissions = <<>>
    /\ results = NoResult
    /\ resubmissions = 0
    /\ Idle2
    /\ Idle3

CalculateSimilarity ==
    /\ similarity = NoResult
    /\ similarity' = calculate_similarity(tokens1, tokens2, k_gram_size)
    /\ UNCHANGED <<tokens1, tokens2, k_gram_size, similarity_threshold, graph,
                   min_cluster_size, clusters, submissions, results, resubmissions>>
    /\ UNCHANGED <<vars2, vars3>>

FindMatchingSequences ==
    /\ matching_sequences = NoResult
    /\ matching_sequences' = <<"find_matching_sequences",
                               find_matching_sequences(tokens1, tokens2,
                                                       k_gram_size)>>
    /\ UNCHANGED vars1
    /\ UNCHANGED <<vars2, language, source, source2, edit, parsed, parsed2,
                   blocks, cov, call, subgraph, metadata_file,
                   metadata_store>>

NextSim == CalculateSimilarity \/ FindMatchingSequences

SpecSim == InitSim /\ [][NextSim]_vars

\* the set of distinct k-grams of a token list, as token tuples
KGramSet(tokens, k) ==
    {SubSeq(tokens, i, i + k - 1) : i \in 1..(Len(tokens) - k + 1)}

\* the hash of the joined k-gram tells the k-grams of S apart
HashInjectiveOn(S, k) ==
    \A g1, g2 \in S :
        hash(JoinKGram(g1, 0, k)) = hash(JoinKGram(g2, 0, k)) => g1 = g2

\* C8: calculate_similarity(A, B) equals calculate_similarity(B, A) for all
\* token lists A, B and every k-gram size K >= 1.
C8_Symmetry ==
    similarity # NoResult =>
        similarity = calculate_similarity(tokens2, tokens1, k_gram_size)

C8_Witness ==
    /\ similarity # NoResult
    /\ Len(tokens1) # Len(tokens2)
    /\ Cardinality(KGramSet(tokens1, k_gram_size))
          # Cardinality(KGramSet(tokens2, k_gram_size))
    /\ FLess(FZero, similarity)
    /\ FLess(similarity, FOne)

\* C9: when A and B both have at least K tokens and the hash tells their
\* k-grams apart, calculate_similarity(A, B) is |G(A) \cap G(B)| divided by
\* |G(A) \cup G(B)| over the sets of distinct k-grams, and the result lies in
\* [0, 1].
C9_Jaccard ==
    similarity # NoResult =>
        /\ FGeq(similarity, FZero)
        /\ FGeq(FOne, similarity)
        /\ LET G1 == KGramSet(tokens1, k_gram_size)
               G2 == KGramSet(tokens2, k_gram_size)
           IN (/\ Len(tokens1) >= k_gram_size
               /\ Len(tokens2) >= k_gram_size
               /\ HashInjectiveOn(G1 \cup G2, k_gram_size))
              => similarity = Frac(Cardinality(G1 \cap G2),
                                   Cardinality(G1 \cup G2))

\* a k-gram occurs twice in A, and the two lists share some but not all k-grams
C9_Witness ==
    /\ similarity # NoResult
    /\ Len(tokens1) >= k_gram_size
    /\ Len(tokens2) >= k_gram_size
    /\ HashInjectiveOn(KGramSet(tokens1, k_gram_size)
                         \cup KGramSet(tokens2, k_gram_size), k_gram_size)
    /\ Cardinality(KGramSet(tokens1, k_gram_size))
          < Len(tokens1) - k_gram_size + 1
    /\ FLess(FZero, similarity)
    /\ FLess(similarity, FOne)

\* C10: calculate_similarity(A, A) is exactly 1.0 for every A with
\* len(A) >= K.
C10_SelfSimilarity ==
    (/\ similarity # NoResult
     /\ tokens1 = tokens2
     /\ Len(tokens1) >= k_gram_size)
    => similarity = FOne

C10_Witness ==
    /\ similarity = FOne
    /\ tokens1 = tokens2
    /\ Len(tokens1) = k_gram_size
    /\ k_gram_size > 1

\* C11: calculate_similarity(A, B) is 0.0 whenever A or B is empty or has
\* fewer than K tokens, whatever the other list is, also when both are short
\* and equal.
C11_ShortIsZero ==
    (/\ similarity # NoResult
     /\ (Len(tokens1) < k_gram_size \/ Len(tokens2) < k_gram_size))
    => similarity = FZero

\* two equal non-empty lists shorter than K
C11_Witness ==
    /\ similarity = FZero
    /\ tokens1 = tokens2
    /\ tokens1 # <<>>
    /\ Len(tokens1) < k_gram_size

\* C30: every triple (pos1, pos2, length) returned by
\* find_matching_sequences, merged triples included, is a literal match
\* inside both lists: length >= K, pos1 + length <= len(tokens1),
\* pos2 + length <= len(tokens2), and tokens1[pos1 + i] = tokens2[pos2 + i]
\* for every 0 <= i < length.
C30_LiteralMatches ==
    matching_sequences # NoResult =>
        \A n \in 1..Len(matching_sequences[2]) :
            LET pos1 == matching_sequences[2][n][1]
                pos2 == matching_sequences[2][n][2]
                length == matching_sequences[2][n][3]
            IN /\ length >= k_gram_size
               /\ pos1 + length <= Len(tokens1)
               /\ pos2 + length <= Len(tokens2)
               /\ \A i \in 0..(length - 1) :
                      tokens1[pos1 + i + 1] = tokens2[pos2 + i + 1]

----------------------------------------------------------------------------
(* SpecGraph: a graph is built by add_node and add_edge calls with arbitrary  *)
(* arguments and then clustered by find_clusters or find_clusters_dfs.  The  *)
(* clustering functions do not change the graph, so a run that goes on       *)
(* building after a clustering call reaches no graph that a run building     *)
(* first does not reach; a run therefore ends with its clustering call, made  *)
(* on a Clustering object constructed with any min_cluster_size.             *)

\* the node ids given to add_node and add_edge
Nodes == {"n1", "n2", "n3", "n4"}

\* one weight below the threshold and one above it
GraphThreshold == <<7, 10>>
GraphWeights == {<<1, 2>>, <<1, 1>>}

\* the unordered pairs of nodes joined in g (a self-loop is a one-element set)
EdgeSet(g) ==
    UNION {{{g[i][1], g[i][2][j][1]} : j \in 1..Len(g[i][2])} : i \in 1..Len(g)}

\* the directed adjacency entries of g with their weights
WeightedEdges(g) ==
    UNION {{<<g[i][1], g[i][2][j][1], g[i][2][j][2]>> : j \in 1..Len(g[i][2])} :
             i \in 1..Len(g)}

InitGraph ==
    /\ tokens1 = <<>>
    /\ tokens2 = <<>>
    /\ k_gram_size = 5
    /\ similarity = NoResult
    /\ similarity_threshold = GraphThreshold
    /\ graph = <<>>
    /\ min_cluster_size = DefaultMinClusterSize
    /\ clusters = NoResult
    /\ submissions = <<>>
    /\ results = NoResult
    /\ resubmissions = 0
    /\ Idle2
    /\ Idle3

AddNode ==
    \E n \in Nodes :
        /\ clusters = NoResult
        /\ graph' = add_node(graph, n)
        /\ clusters' = NoResult
        /\ UNCHANGED <<tokens1, tokens2, k_gram_size, similarity,
                       similarity_threshold, min_cluster_size, submissions,
                       results, resubmissions>>
        /\ UNCHANGED <<vars2, vars3>>

AddEdge ==
    \E n1 \in Nodes, n2 \in Nodes, w \in GraphWeights :
        /\ clusters = NoResult
        /\ Cardinality(EdgeSet(graph) \cup {{n1, n2}}) <= MaxEdges
        /\ graph' = add_edge(graph, similarity_threshold, n1, n2, w)
        /\ clusters' = NoResult
        /\ UNCHANGED <<tokens1, tokens2, k_gram_size, similarity,
                       similarity_threshold, min_cluster_size, submissions,
                       results, resubmissions>>
        /\ UNCHANGED <<vars2, vars3>>

\* Clustering(m).find_clusters(graph)
FindClusters ==
    \E m \in 1..MaxMinSize :
        /\ clusters = NoResult
        /\ min_cluster_size' = m
        /\ clusters' = <<"find_clusters", find_clusters(graph, m)>>
        /\ UNCHANGED <<tokens1, tokens2, k_gram_size, similarity,
                       similarity_threshold, graph, submissions, results,
                       resubmissions>>
        /\ UNCHANGED <<vars2, vars3>>

\* Clustering(m).find_clusters_dfs(graph)
FindClustersDfs ==
    \E m \in 1..MaxMinSize :
        /\ clusters = NoResult
        /\ min_cluster_size' = m
        /\ clusters' = <<"find_clusters_dfs", find_clusters_dfs(graph, m)>>
        /\ UNCHANGED <<tokens1, tokens2, k_gram_size, similarity,
                       similarity_threshold, graph, submissions, results,
                       resubmissions>>
        /\ UNCHANGED <<vars2, vars3>>

NextGraph == AddNode \/ AddEdge \/ FindClusters \/ FindClustersDfs

SpecGraph == InitGraph /\ [][NextGraph]_vars

\* u and v are joined by an edge of g
Adjacent(g, u, v) == DictHas(g, u) /\ DictHas(DictGet(g, u), v)

\* the nodes of g joined to a node of S by a path of edges (S included)
RECURSIVE ReachSet(_, _)
ReachSet(g, S) ==
    LET S2 == S \cup UNION {DictKeySet(get_neighbors(g, u)) : u \in S}
    IN IF S2 = S THEN S ELSE ReachSet(g, S2)

SeqToSet(q) == {q[i] : i \in 1..Len(q)}
ClusterSets(cls) == [i \in 1..Len(cls) |-> SeqToSet(cls[i])]

\* C4: in every cluster returned by find_clusters or find_clusters_dfs, every
\* node is reachable from every other node of the cluster by a path of graph
\* edges.
C4_ClusterCoverage ==
    clusters # NoResult =>
        \A i \in 1..Len(clusters[2]) :
            \A u \in SeqToSet(clusters[2][i]) :
                SeqToSet(clusters[2][i]) \subseteq ReachSet(graph, {u})

\* a DFS cluster holding two nodes that are linked only through a third
C4_Witness ==
    /\ clusters # NoResult
    /\ clusters[1] = "find_clusters_dfs"
    /\ \E i \in 1..Len(clusters[2]) :
           \E u, v \in SeqToSet(clusters[2][i]) :
               u # v /\ ~Adjacent(graph, u, v)

\* C5: the clusters returned by one call of find_clusters are pairwise
\* disjoint and none lists a node twice.
C5_ClusterDisjoint ==
    (clusters # NoResult /\ clusters[1] = "find_clusters") =>
        /\ \A i, j \in 1..Len(clusters[2]) :
               i # j => SeqToSet(clusters[2][i]) \cap SeqToSet(clusters[2][j]) = {}
        /\ \A i \in 1..Len(clusters[2]) :
               Cardinality(SeqToSet(clusters[2][i])) = Len(clusters[2][i])

\* two clusters, one of them a triangle (its third node is enqueued twice)
C5_Witness ==
    /\ clusters # NoResult
    /\ clusters[1] = "find_clusters"
    /\ Len(clusters[2]) >= 2
    /\ \E i \in 1..Len(clusters[2]) :
           /\ Len(clusters[2][i]) >= 3
           /\ \A u, v \in SeqToSet(clusters[2][i]) :
                  u # v => Adjacent(graph, u, v)

\* the connected components of g
Components(g) == {ReachSet(g, {u}) : u \in DictKeySet(g)}

\* C6: find_clusters returns exactly the connected components of the graph
\* that have at least min_cluster_size nodes, each once and each whole.
C6_ClustersAreComponents ==
    (clusters # NoResult /\ clusters[1] = "find_clusters") =>
        /\ SeqToSet(ClusterSets(clusters[2]))
             = {c \in Components(graph) : Cardinality(c) >= min_cluster_size}
        /\ Len(clusters[2])
             = Cardinality({c \in Components(graph) :
                               Cardinality(c) >= min_cluster_size})
        /\ \A i \in 1..Len(clusters[2]) :
               Cardinality(SeqToSet(clusters[2][i])) = Len(clusters[2][i])

\* a component of exactly min_cluster_size nodes is returned and a smaller
\* component is left out
C6_Witness ==
    /\ clusters # NoResult
    /\ clusters[1] = "find_clusters"
    /\ min_cluster_size >= 2
    /\ \E i \in 1..Len(clusters[2]) : Len(clusters[2][i]) = min_cluster_size
    /\ \E c \in Components(graph) : Cardinality(c) < min_cluster_size

\* C7: find_clusters and find_clusters_dfs return the same clusters, compared
\* as sets of nodes, in the same cluster order.
C7_BfsEqualsDfs ==
    /\ (clusters # NoResult /\ clusters[1] = "find_clusters") =>
           ClusterSets(clusters[2])
             = ClusterSets(find_clusters_dfs(graph, min_cluster_size))
    /\ (clusters # NoResult /\ clusters[1] = "find_clusters_dfs") =>
           ClusterSets(clusters[2])
             = ClusterSets(find_clusters(graph, min_cluster_size))

\* BFS and DFS list the nodes of a cluster in different orders
C7_Witness ==
    /\ clusters # NoResult
    /\ clusters[1] = "find_clusters"
    /\ Len(clusters[2]) >= 1
    /\ clusters[2] # find_clusters_dfs(graph, min_cluster_size)

\* the place of node n in the insertion order of the nodes of g
InsertionIndex(g, n) == CHOOSE i \in 1..Len(g) : g[i][1] = n

\* C29: find_clusters emits the clusters in the order in which their first
\* members appear in the graph's node insertion order: the first element of
\* each cluster is the earliest-inserted node of the cluster, and the first
\* element of cluster i was inserted before that of cluster i + 1 (so
\* repeated calls on the same graph return the same list).
C29_ClusterOrder ==
    (clusters # NoResult /\ clusters[1] = "find_clusters") =>
        LET cls == clusters[2]
        IN /\ \A i \in 1..Len(cls) :
                  \A j \in 1..Len(cls[i]) :
                      InsertionIndex(graph, cls[i][1])
                        <= InsertionIndex(graph, cls[i][j])
           /\ \A i \in 1..(Len(cls) - 1) :
                  InsertionIndex(graph, cls[i][1])
                    < InsertionIndex(graph, cls[i + 1][1])
           /\ cls = find_clusters(graph, min_cluster_size)

\* two clusters of two nodes have been returned, the nodes of the first
\* inserted first and third
C29_Witness ==
    /\ clusters # NoResult
    /\ clusters[1] = "find_clusters"
    /\ Len(clusters[2]) = 2
    /\ Len(clusters[2][1]) = 2
    /\ Len(clusters[2][2]) = 2
    /\ InsertionIndex(graph, clusters[2][1][2]) = 3
    /\ InsertionIndex(graph, clusters[2][2][1]) = 2

\* C14: after any add_node and add_edge calls with arbitrary node arguments
\* no node is its own neighbour.
C14_NoSelfLoops ==
    \A i \in 1..Len(graph) : ~DictHas(graph[i][2], graph[i][1])

----------------------------------------------------------------------------
(* SpecGraphOps: add_node, add_edge and remove_node calls with arbitrary     *)
(* arguments on one SimilarityGraph.  A call that raises leaves the graph as  *)
(* it is at the raise, and the object stays in use.                          *)

OpNodes == {"u", "v", "w"}

\* a weight below the threshold, the threshold itself and a weight above it
OpWeights == {<<1, 2>>, <<7, 10>>, <<1, 1>>}

InitGraphOps ==
    /\ tokens1 = <<>>
    /\ tokens2 = <<>>
    /\ k_gram_size = DefaultKGramSize
    /\ similarity = NoResult
    /\ similarity_threshold = GraphThreshold
    /\ graph = <<>>
    /\ min_cluster_size = DefaultMinClusterSize
    /\ clusters = NoResult
    /\ submissions = <<>>
    /\ results = NoResult
    /\ resubmissions = 0
    /\ Idle2
    /\ Idle3

OpAddNode ==
    \E n \in OpNodes :
        /\ graph' = add_node(graph, n)
        /\ last_call' = <<"add_node", "None">>
        /\ UNCHANGED <<tokens1, tokens2, k_gram_size, similarity,
                       similarity_threshold, min_cluster_size, clusters,
                       submissions, results, resubmissions>>
        /\ UNCHANGED <<vars3, tree_order, tree, inserted, sel_cluster, sel_max,
                       representatives, code_tokens, normalized_tokens>>

OpAddEdge ==
    \E n1 \in OpNodes, n2 \in OpNodes, w \in OpWeights :
        /\ Cardinality(EdgeSet(graph) \cup {{n1, n2}}) <= MaxEdges
        /\ graph' = add_edge(graph, similarity_threshold, n1, n2, w)
        /\ last_call' = <<"add_edge", "None">>
        /\ UNCHANGED <<tokens1, tokens2, k_gram_size, similarity,
                       similarity_threshold, min_cluster_size, clusters,
                       submissions, results, resubmissions>>
        /\ UNCHANGED <<vars3, tree_order, tree, inserted, sel_cluster, sel_max,
                       representatives, code_tokens, normalized_tokens>>

OpRemoveNode ==
    \E n \in OpNodes :
        LET r == remove_node(graph, n)
        IN /\ graph' = r.graph
           /\ last_call' = <<"remove_node", r.outcome>>
           /\ UNCHANGED <<tokens1, tokens2, k_gram_size, similarity,
                          similarity_threshold, min_cluster_size, clusters,
                          submissions, results, resubmissions>>
           /\ UNCHANGED <<vars3, tree_order, tree, inserted, sel_cluster, sel_max,
                          representatives, code_tokens, normalized_tokens>>

NextGraphOps == OpAddNode \/ OpAddEdge \/ OpRemoveNode

SpecGraphOps == InitGraphOps /\ [][NextGraphOps]_vars

\* C12: in every state reached by add_node, add_edge and remove_node calls,
\* get_edge_weight(u, v) = get_edge_weight(v, u) for all nodes u and v, and v
\* is a neighbour of u exactly when u is a neighbour of v.
C12_Symmetric ==
    \A u, v \in OpNodes :
        /\ get_edge_weight(graph, u, v) = get_edge_weight(graph, v, u)
        /\ DictHas(get_neighbors(graph, u), v)
             <=> DictHas(get_neighbors(graph, v), u)

\* C13: in every state reached by add_node, add_edge and remove_node calls,
\* every weight stored in the adjacency mapping is >= the threshold.
C13_ThresholdGate ==
    \A e \in WeightedEdges(graph) : FGeq(e[3], similarity_threshold)

\* after a remove_node call the graph holds an edge whose weight is the
\* threshold itself and an edge of a greater weight
C13_Witness ==
    /\ last_call # NoResult
    /\ last_call[1] = "remove_node"
    /\ \E e \in WeightedEdges(graph) : e[3] = similarity_threshold
    /\ \E e \in WeightedEdges(graph) : FLess(similarity_threshold, e[3])

----------------------------------------------------------------------------
(* SpecGraphCalls: add_node and add_edge calls with arbitrary arguments on   *)
(* one SimilarityGraph, each recorded with its arguments, and then a         *)
(* get_subgraph call.  get_subgraph changes nothing in the original, so a    *)
(* run ends with it.                                                        *)

\* the lists of nodes given to get_subgraph: every list of distinct nodes and
\* a list that names a node twice
NodeLists ==
    {<<"u", "u">>}
    \cup {l \in UNION {[1..m -> OpNodes] : m \in 0..Cardinality(OpNodes)} :
             \A i, j \in 1..Len(l) : l[i] = l[j] => i = j}

CallAddNode ==
    \E n \in OpNodes :
        /\ subgraph = NoResult
        /\ graph' = add_node(graph, n)
        /\ call' = <<"add_node", n>>
        /\ UNCHANGED <<tokens1, tokens2, k_gram_size, similarity,
                       similarity_threshold, min_cluster_size, clusters,
                       submissions, results, resubmissions>>
        /\ UNCHANGED <<vars2, language, source, source2, edit, parsed, parsed2,
                       blocks, cov, subgraph, matching_sequences,
                       metadata_file, metadata_store>>

CallAddEdge ==
    \E n1 \in OpNodes, n2 \in OpNodes, w \in OpWeights :
        /\ subgraph = NoResult
        /\ Cardinality(EdgeSet(graph) \cup {{n1, n2}}) <= MaxCallEdges
        /\ graph' = add_edge(graph, similarity_threshold, n1, n2, w)
        /\ call' = <<"add_edge", n1, n2, w>>
        /\ UNCHANGED <<tokens1, tokens2, k_gram_size, similarity,
                       similarity_threshold, min_cluster_size, clusters,
                       submissions, results, resubmissions>>
        /\ UNCHANGED <<vars2, language, source, source2, edit, parsed, parsed2,
                       blocks, cov, subgraph, matching_sequences,
                       metadata_file, metadata_store>>

CallGetSubgraph ==
    \E nodes \in NodeLists :
        /\ subgraph = NoResult
        /\ subgraph' = <<"get_subgraph",
                         get_subgraph(graph, similarity_threshold, nodes)>>
        /\ call' = <<"get_subgraph", nodes>>
        /\ UNCHANGED vars1
        /\ UNCHANGED <<vars2, language, source, source2, edit, parsed, parsed2,
                       blocks, cov, matching_sequences,
                       metadata_file, metadata_store>>

NextGraphCalls == CallAddNode \/ CallAddEdge \/ CallGetSubgraph

SpecGraphCalls == InitGraphOps /\ [][NextGraphCalls]_vars

\* C27: add_edge(u, v, w) with w below the threshold leaves the graph
\* entirely unchanged: it creates neither u nor v, and an edge (u, v) that
\* already exists keeps its previous weight in both directions.
C27_BelowThresholdNoOp ==
    [][(/\ call' # NoResult
        /\ call'[1] = "add_edge"
        /\ FLess(call'[4], similarity_threshold))
       => graph' = graph]_vars

\* a call below the threshold has been made on an edge that exists, with a
\* node of the graph still without the other as a neighbour
C27_Witness ==
    /\ call # NoResult
    /\ call[1] = "add_edge"
    /\ FLess(call[4], similarity_threshold)
    /\ call[2] # call[3]
    /\ get_edge_weight(graph, call[2], call[3]) = FOne
    /\ get_edge_weight(graph, call[3], call[2]) = FOne
    /\ \E n \in OpNodes : ~DictHas(graph, n)

\* C28: get_subgraph(nodes) returns a new graph whose node set is exactly the
\* given nodes that exist in the original graph (those with no edge to
\* another given node included) and whose edges are exactly the original
\* edges with both endpoints in nodes, with unchanged weights; the original
\* graph is not modified.
C28_Subgraph ==
    [][(call' # NoResult /\ call'[1] = "get_subgraph") =>
          LET given == {call'[2][i] : i \in 1..Len(call'[2])}
              sub == subgraph'[2]
          IN /\ graph' = graph
             /\ DictKeySet(sub) = given \cap DictKeySet(graph)
             /\ WeightedEdges(sub) =
                    {e \in WeightedEdges(graph) :
                        e[1] \in given /\ e[2] \in given}]_vars

----------------------------------------------------------------------------
(* SpecTree: insert calls with pairwise distinct keys on a B+ tree of any    *)
(* order.  SpecTreeUpdate: the same, and insert may also be given a key the  *)
(* tree already stores.  search and range_search change nothing and are      *)
(* evaluated on the tree of each state.                                     *)

\* the order argument of BPlusTree(order); an order below 3 is raised to 3
TreeOrders == {2, 3, 4}

Keys == 1..NumKeys
UpdateKeys == 1..NumUpdateKeys

\* the value inserted for a key: version 1 first, version 2 when the key is
\* inserted again
Value(key, version) == <<key, version>>

InitTree ==
    /\ Idle1
    /\ Idle3
    /\ last_call = NoResult
    /\ tree_order \in {TreeOrder(o) : o \in TreeOrders}
    /\ tree = BPlusTree
    /\ inserted = NoResult
    /\ sel_cluster = <<>>
    /\ sel_max = DefaultMaxRepresentatives
    /\ representatives = NoResult
    /\ code_tokens = <<>>
    /\ normalized_tokens = NoResult

\* inserted after insert(key, value)
Record(key, value) ==
    [k \in DOMAIN inserted \cup {key} |-> IF k = key THEN value ELSE inserted[k]]

\* insert(key, value) of a key not yet stored
Insert ==
    \E key \in Keys :
        /\ key \notin DOMAIN inserted
        /\ tree' = insert(tree, key, Value(key, 1), tree_order)
        /\ inserted' = Record(key, Value(key, 1))
        /\ UNCHANGED vars1
        /\ UNCHANGED <<vars3, last_call, tree_order, sel_cluster, sel_max, representatives,
                       code_tokens, normalized_tokens>>

\* insert(key, value) of a key not yet stored, in SpecTreeUpdate
InsertNew ==
    \E key \in UpdateKeys :
        /\ key \notin DOMAIN inserted
        /\ tree' = insert(tree, key, Value(key, 1), tree_order)
        /\ inserted' = Record(key, Value(key, 1))
        /\ UNCHANGED vars1
        /\ UNCHANGED <<vars3, last_call, tree_order, sel_cluster, sel_max,
                       representatives, code_tokens, normalized_tokens>>

\* the keys that were inserted again
Updated == {k \in DOMAIN inserted : inserted[k] = Value(k, 2)}

\* insert(key, value) of a key the tree already stores
InsertExisting ==
    \E key \in UpdateKeys :
        /\ key \in DOMAIN inserted
        /\ inserted[key] = Value(key, 1)
        /\ Cardinality(Updated) < MaxUpdates
        /\ tree' = insert(tree, key, Value(key, 2), tree_order)
        /\ inserted' = Record(key, Value(key, 2))
        /\ UNCHANGED vars1
        /\ UNCHANGED <<vars3, last_call, tree_order, sel_cluster, sel_max, representatives,
                       code_tokens, normalized_tokens>>

NextTree == Insert

SpecTree == InitTree /\ [][NextTree]_vars

NextTreeUpdate == InsertNew \/ InsertExisting

SpecTreeUpdate == InitTree /\ [][NextTreeUpdate]_vars

\* the nodes of t that the root reaches through children pointers, each with
\* its depth
RECURSIVE Below(_, _, _)
Below(t, node, depth) ==
    {<<node, depth>>}
    \cup UNION {Below(t, t.nodes[node].children[i], depth + 1) :
                  i \in 1..Len(t.nodes[node].children)}

Reached(t) == Below(t, t.root, 0)

\* the depths of the leaves of t
LeafDepths(t) == {x[2] : x \in {y \in Reached(t) : t.nodes[y[1]].leaf}}

\* the number of leaves of t
NumLeaves(t) == Cardinality({y \in Reached(t) : t.nodes[y[1]].leaf})

\* C15: after each insert of a sequence with pairwise distinct keys, search(k)
\* returns the value inserted for k for every key inserted so far, and None
\* for every key never inserted.
C15_RoundTrip ==
    tree # NoResult =>
        \A k \in 0..(NumKeys + 1) :
            search(tree, k) = IF k \in DOMAIN inserted THEN inserted[k]
                              ELSE NotFound

\* leaves have split, an internal node has split and the root has split twice:
\* the root's children are internal nodes
C15_Witness ==
    /\ tree # NoResult
    /\ \E i \in 1..Len(tree.nodes) :
           ~tree.nodes[i].leaf /\ tree.nodes[i].parent = tree.root
    /\ \E k \in Keys : k \notin DOMAIN inserted

\* the tree without its values: the root pointer and every node with the
\* number of its values in place of the values
Shape(t) ==
    [root |-> t.root,
     nodes |-> [i \in 1..Len(t.nodes) |->
                   [t.nodes[i] EXCEPT !.values = Len(t.nodes[i].values)]]]

\* C17: insert(k, v2) on a tree that stores k makes search(k) return v2,
\* leaves the stored keys and the value of every other key unchanged and
\* splits no node: the node structure is unchanged.
C17_UpdateInPlace ==
    [][\A k \in DOMAIN inserted :
           inserted'[k] # inserted[k] =>
               /\ search(tree', k) = inserted'[k]
               /\ Shape(tree') = Shape(tree)
               /\ \A j \in 0..(NumUpdateKeys + 1) :
                      j # k => search(tree', j) = search(tree, j)]_vars

\* a key of a tree of three levels has been inserted again and is found with
\* its second value, in a leaf that is full
C17_Witness ==
    /\ tree # NoResult
    /\ LeafDepths(tree) = {2}
    /\ \E k \in Updated :
           /\ search(tree, k) = Value(k, 2)
           /\ Len(tree.nodes[find_leaf(tree, k)].keys) = tree_order - 1

\* the (key, value) pairs stored with lo <= key <= hi, in ascending key order
StoredRange(lo, hi) ==
    LET ks == SelectSeq([k \in 1..NumKeys |-> k],
                        LAMBDA k : k \in DOMAIN inserted /\ lo <= k /\ k <= hi)
    IN [i \in 1..Len(ks) |-> <<ks[i], inserted[ks[i]]>>]

\* C16: for all keys lo and hi, range_search(lo, hi) returns exactly the
\* stored (key, value) pairs with lo <= key <= hi, each once and in ascending
\* key order, and the empty list when lo > hi or no key is in range.
C16_RangeSearch ==
    tree # NoResult =>
        \A lo, hi \in 0..(NumKeys + 1) :
            range_search(tree, lo, hi) = StoredRange(lo, hi)

\* a range whose pairs come from three leaves or more, the first and the last
\* of them cut by the range
C16_Witness ==
    /\ tree # NoResult
    /\ \E lo, hi \in Keys :
           LET first == tree.nodes[find_leaf(tree, lo)]
               last == tree.nodes[find_leaf(tree, hi)]
           IN /\ Len(range_search(tree, lo, hi)) >= 4
              /\ first.next_leaf # None
              /\ first.next_leaf # find_leaf(tree, hi)
              /\ first.keys[1] < lo
              /\ last.keys[Len(last.keys)] > hi

\* C18: in every state reached by inserts on a B+ tree of any order, all
\* leaves are at the same depth from the root.
C18_Balanced ==
    tree # NoResult => Cardinality(LeafDepths(tree)) = 1

\* a tree of order 4 and three levels: its root has split as an internal node
C18_Witness ==
    /\ tree # NoResult
    /\ tree_order = 4
    /\ LeafDepths(tree) = {2}
    /\ NumLeaves(tree) >= 5

----------------------------------------------------------------------------
(* SpecSelect: a GreedySelection object constructed with any                *)
(* max_representatives picks the representatives of any cluster of distinct *)
(* nodes, by either strategy, on a graph built by add_edge calls.  The      *)
(* selection changes nothing, so a run ends with it.                        *)

\* the pairs of nodes add_edge is called on, in this order
SelectPairs ==
    <<<<"n1", "n2">>, <<"n1", "n3">>, <<"n1", "n4">>,
      <<"n2", "n3">>, <<"n2", "n4">>, <<"n3", "n4">>>>

\* a weight below the threshold (no edge is stored), the threshold itself and
\* a weight above it; neither of the last two is a dyadic fraction, so a sum
\* of them is rounded
SelectWeights == {<<1, 2>>, <<7, 10>>, <<7, 9>>}

\* the graph after add_edge on the pairs from the i-th on, with weights w
RECURSIVE BuildGraph(_, _, _)
BuildGraph(w, i, g) ==
    IF i > Len(SelectPairs) THEN g
    ELSE BuildGraph(w, i + 1,
                    add_edge(g, GraphThreshold, SelectPairs[i][1],
                             SelectPairs[i][2], w[i]))

\* the lists of distinct nodes
Clusters ==
    UNION {{c \in [1..m -> Nodes] : \A i, j \in 1..m : i # j => c[i] # c[j]} :
             m \in 0..Cardinality(Nodes)}

InitSelect ==
    /\ tokens1 = <<>>
    /\ tokens2 = <<>>
    /\ k_gram_size = DefaultKGramSize
    /\ similarity = NoResult
    /\ similarity_threshold = GraphThreshold
    /\ graph \in {BuildGraph(w, 1, <<>>) :
                    w \in [1..Len(SelectPairs) -> SelectWeights]}
    /\ min_cluster_size = DefaultMinClusterSize
    /\ clusters = NoResult
    /\ submissions = <<>>
    /\ results = NoResult
    /\ resubmissions = 0
    /\ Idle3
    /\ last_call = NoResult
    /\ tree_order = DefaultOrder
    /\ tree = NoResult
    /\ inserted = NoResult
    /\ sel_cluster = <<>>
    /\ sel_max \in 1..MaxRepresentatives
    /\ representatives = NoResult
    /\ code_tokens = <<>>
    /\ normalized_tokens = NoResult

SelectRepresentatives ==
    \E c \in Clusters :
        /\ representatives = NoResult
        /\ sel_cluster' = c
        /\ representatives' = <<"select_representatives",
                                select_representatives(c, graph, sel_max)>>
        /\ UNCHANGED vars1
        /\ UNCHANGED <<vars3, last_call, tree_order, tree, inserted, sel_max,
                       code_tokens, normalized_tokens>>

SelectRepresentativesCoverage ==
    \E c \in Clusters :
        /\ representatives = NoResult
        /\ sel_cluster' = c
        /\ representatives' =
               <<"select_representatives_coverage",
                 select_representatives_coverage(c, graph, sel_max)>>
        /\ UNCHANGED vars1
        /\ UNCHANGED <<vars3, last_call, tree_order, tree, inserted, sel_max,
                       code_tokens, normalized_tokens>>

NextSelect == SelectRepresentatives \/ SelectRepresentativesCoverage

SpecSelect == InitSelect /\ [][NextSelect]_vars

\* C19: for both strategies, every cluster of distinct nodes and every
\* max_representatives K >= 1, the list returned has no duplicates, holds
\* only members of the cluster and has min(|cluster|, K) members; a cluster
\* of at most K members is returned unchanged, in its input order.
C19_RepresentativeSet ==
    representatives # NoResult =>
        LET r == representatives[2]
        IN /\ SeqToSet(r) \subseteq SeqToSet(sel_cluster)
           /\ Cardinality(SeqToSet(r)) = Len(r)
           /\ Len(r) = IF Len(sel_cluster) < sel_max THEN Len(sel_cluster)
                       ELSE sel_max
           /\ Len(sel_cluster) <= sel_max => r = sel_cluster

\* the coverage strategy on a cluster of more than K members stops covering
\* early: a representative has no edge to any member of the cluster and one
\* has an edge
C19_Witness ==
    /\ representatives # NoResult
    /\ representatives[1] = "select_representatives_coverage"
    /\ Len(sel_cluster) > sel_max
    /\ \E i \in 1..Len(representatives[2]) :
           \A o \in SeqToSet(sel_cluster) :
               get_edge_weight(graph, representatives[2][i], o) = FZero
    /\ \E i \in 1..Len(representatives[2]) :
           \E o \in SeqToSet(sel_cluster) :
               FLess(FZero, get_edge_weight(graph, representatives[2][i], o))

\* the place of member n in the cluster list
ClusterIndex(n) == CHOOSE i \in 1..Len(sel_cluster) : sel_cluster[i] = n

\* the exact sum of the edge weights from n to the nodes of S, no edge
\* counting 0; every member has the same number of other members, so the
\* exact means compare as these sums do
RECURSIVE ExactWeightSum(_, _)
ExactWeightSum(n, S) ==
    IF S = {} THEN DZero
    ELSE LET o == CHOOSE x \in S : TRUE
         IN ExactAdd(Double(get_edge_weight(graph, n, o)),
                     ExactWeightSum(n, S \ {o}))

ExactSum(n) == ExactWeightSum(n, SeqToSet(sel_cluster) \ {n})

\* member a is ranked before member b by the means mean[n] of the members:
\* a greater mean, or the same mean and an earlier place in the cluster list
RankedBefore(mean, a, b) ==
    \/ DLess(mean[b], mean[a])
    \/ mean[a] = mean[b] /\ ClusterIndex(a) < ClusterIndex(b)

\* r holds the K members ranked first by the means mean[n], in that order,
\* and starts with the member whose mean is strictly the highest, if any
TopKBy(mean, r) ==
    /\ Len(r) = sel_max
    /\ SeqToSet(r) \subseteq SeqToSet(sel_cluster)
    /\ \A i, j \in 1..Len(r) : i < j => RankedBefore(mean, r[i], r[j])
    /\ \A m \in SeqToSet(sel_cluster) \ SeqToSet(r) :
           \A i \in 1..Len(r) : RankedBefore(mean, r[i], m)
    /\ \A m \in SeqToSet(sel_cluster) :
           (\A o \in SeqToSet(sel_cluster) \ {m} : DLess(mean[o], mean[m]))
           => r[1] = m

\* C25: when |cluster| > K, select_representatives returns the K members
\* with the highest mean edge weight to the other members (a missing edge
\* counting as 0), in non-increasing order of that mean; among members of
\* equal mean the one earlier in the cluster list is ranked first.  So a
\* member whose mean is strictly the highest is the first representative.
C25_TopKByMean ==
    (/\ representatives # NoResult
     /\ representatives[1] = "select_representatives"
     /\ Len(sel_cluster) > sel_max) =>
        TopKBy([n \in SeqToSet(sel_cluster) |-> ExactSum(n)],
               representatives[2])

\* the float sum of the weights from n to the other members among the first
\* i of the cluster list, added in the order of the list
RECURSIVE ComputedSum(_, _)
ComputedSum(n, i) ==
    IF i = 0 THEN DZero
    ELSE IF sel_cluster[i] = n THEN ComputedSum(n, i - 1)
    ELSE FAdd(ComputedSum(n, i - 1),
              Double(get_edge_weight(graph, n, sel_cluster[i])))

\* the float mean: the float sum divided by the number of other members
ComputedMean(n) ==
    FDivInt(ComputedSum(n, Len(sel_cluster)), Len(sel_cluster) - 1)

\* C25, amended: when |cluster| > K, select_representatives returns the K
\* members with the highest float mean (the weights to the other members, 0.0
\* for a missing edge, added as floats in the order of the cluster list and
\* divided by their number), in non-increasing order of that float; among
\* members of equal float mean the one earlier in the cluster list is ranked
\* first.  So a member whose float mean is strictly the highest is the first
\* representative.
C25_TopKByFloatMean ==
    (/\ representatives # NoResult
     /\ representatives[1] = "select_representatives"
     /\ Len(sel_cluster) > sel_max) =>
        TopKBy([n \in SeqToSet(sel_cluster) |-> ComputedMean(n)],
               representatives[2])

\* of two members of the same exact mean the later one has the greater float
\* mean and is chosen, the earlier one is left out; and a member left out has
\* the float mean of the last representative
C25_Witness ==
    /\ representatives # NoResult
    /\ representatives[1] = "select_representatives"
    /\ Len(sel_cluster) > sel_max
    /\ \E a, b \in SeqToSet(sel_cluster) :
           /\ ExactSum(a) = ExactSum(b)
           /\ ClusterIndex(a) < ClusterIndex(b)
           /\ DLess(ComputedMean(a), ComputedMean(b))
           /\ b \in SeqToSet(representatives[2])
           /\ a \notin SeqToSet(representatives[2])

----------------------------------------------------------------------------
(* SpecCoverage: select_representatives_coverage taken one iteration of its  *)
(* while loop at a time.  cov is <<"while", representatives, covered>>, the   *)
(* two locals of the call, from the moment the loop is reached.               *)

\* the call up to the while loop: an empty or a small cluster is returned
CoverageCall ==
    \E c \in Clusters :
        /\ representatives = NoResult
        /\ cov = NoResult
        /\ sel_cluster' = c
        /\ IF c = <<>> \/ Len(c) <= sel_max
           THEN /\ representatives' = <<"select_representatives_coverage", c>>
                /\ cov' = cov
           ELSE /\ cov' = <<"while", <<>>, {}>>
                /\ representatives' = representatives
        /\ UNCHANGED vars1
        /\ UNCHANGED <<language, source, source2, edit, parsed, parsed2,
                       blocks, call, subgraph, matching_sequences,
                       metadata_file, metadata_store, last_call,
                       tree_order, tree, inserted, sel_max, code_tokens,
                       normalized_tokens>>

\* the condition of the while loop
CoverageWhile ==
    /\ Len(cov[2]) < sel_max
    /\ Cardinality(cov[3]) < Len(sel_cluster)

\* one iteration of the while loop that does not break
CoveragePick ==
    /\ representatives = NoResult
    /\ cov # NoResult
    /\ CoverageWhile
    /\ LET b == BestNodeLoop(sel_cluster, graph, cov[2], cov[3], 1, <<>>, -1)
       IN /\ ~(b.best = <<>> \/ b.best_coverage = 0)
          /\ LET best_node == b.best[1]
                 covered1 == cov[3] \cup {best_node}
                 newly == {sel_cluster[j] : j \in
                             {x \in 1..Len(sel_cluster) :
                                /\ sel_cluster[x] # best_node
                                /\ sel_cluster[x] \notin covered1
                                /\ FLess(FZero, get_edge_weight(
                                       graph, best_node, sel_cluster[x]))}}
             IN cov' = <<"while", Append(cov[2], best_node),
                         covered1 \cup newly>>
    /\ UNCHANGED vars1
    /\ UNCHANGED <<language, source, source2, edit, parsed, parsed2,
                   blocks, call, subgraph, matching_sequences,
                   metadata_file, metadata_store, last_call,
                   tree_order, tree, inserted, sel_cluster, sel_max,
                   representatives, code_tokens, normalized_tokens>>

\* the end of the while loop, by its condition or by break, and the rest of
\* the call
CoverageReturn ==
    /\ representatives = NoResult
    /\ cov # NoResult
    /\ \/ ~CoverageWhile
       \/ LET b == BestNodeLoop(sel_cluster, graph, cov[2], cov[3], 1,
                                <<>>, -1)
          IN b.best = <<>> \/ b.best_coverage = 0
    /\ representatives' =
           <<"select_representatives_coverage",
             IF Len(cov[2]) < sel_max
             THEN LET remaining ==
                          SelectSeq(sel_cluster,
                                    LAMBDA n : \A j \in 1..Len(cov[2]) :
                                                   cov[2][j] # n)
                      avg_similarities ==
                          AvgSimilarities(remaining, sel_cluster, graph, 1,
                                          <<>>)
                      sorted_remaining ==
                          SortedDescending(avg_similarities, 1, <<>>)
                  IN FillLoop(sorted_remaining, 1, sel_max, cov[2])
             ELSE cov[2]>>
    /\ UNCHANGED vars1
    /\ UNCHANGED <<language, source, source2, edit, parsed, parsed2,
                   blocks, cov, call, subgraph, matching_sequences,
                   metadata_file, metadata_store, last_call,
                   tree_order, tree, inserted, sel_cluster, sel_max,
                   code_tokens, normalized_tokens>>

NextCoverage == CoverageCall \/ CoveragePick \/ CoverageReturn

SpecCoverage == InitSelect /\ [][NextCoverage]_vars

\* the number of members of the cluster other than n, not in covered, that n
\* is joined to by an edge of weight > 0
Gain(n, covered) ==
    Cardinality({o \in SeqToSet(sel_cluster) \ ({n} \cup covered) :
                   FLess(FZero, get_edge_weight(graph, n, o))})

\* the greatest gain of a member that is not in chosen
BestGain(chosen, covered) ==
    LET gains == {Gain(n, covered) : n \in SeqToSet(sel_cluster) \ chosen}
    IN CHOOSE x \in gains : \A y \in gains : y <= x

\* list r is in non-increasing order of mean[n], and no member outside
\* chosen and r has a greater mean than a member in r
DescendingBy(mean, r, chosen) ==
    /\ \A i, j \in 1..Len(r) : i < j => ~DLess(mean[r[i]], mean[r[j]])
    /\ \A m \in SeqToSet(sel_cluster) \ (chosen \cup SeqToSet(r)) :
           \A i \in 1..Len(r) : ~DLess(mean[r[i]], mean[m])

\* an iteration of the loop: cov changes
PickedRight ==
    (cov # NoResult /\ cov' # cov) =>
        LET chosen == SeqToSet(cov[2])
            covered == cov[3]
            pick == cov'[2][Len(cov'[2])]
        IN /\ cov'[2] = Append(cov[2], pick)
           /\ pick \in SeqToSet(sel_cluster) \ chosen
           /\ Gain(pick, covered) = BestGain(chosen, covered)
           /\ \A m \in SeqToSet(sel_cluster) \ chosen :
                  Gain(m, covered) = Gain(pick, covered)
                  => ClusterIndex(pick) <= ClusterIndex(m)
           /\ Gain(pick, covered) > 0
           /\ Len(cov[2]) < sel_max
           /\ covered # SeqToSet(sel_cluster)
           /\ cov'[3] = covered \cup {pick} \cup
                  {o \in SeqToSet(sel_cluster) :
                     FLess(FZero, get_edge_weight(graph, pick, o))}

\* the return after the loop: representatives is set while cov is set
FilledRight ==
    (cov # NoResult /\ representatives = NoResult
     /\ representatives' # NoResult) =>
        LET chosen == SeqToSet(cov[2])
            r == representatives'[2]
            fill == SubSeq(r, Len(cov[2]) + 1, Len(r))
        IN /\ \/ Len(cov[2]) = sel_max
              \/ cov[3] = SeqToSet(sel_cluster)
              \/ BestGain(chosen, cov[3]) = 0
           /\ Len(r) = sel_max
           /\ SubSeq(r, 1, Len(cov[2])) = cov[2]
           /\ SeqToSet(fill) \subseteq SeqToSet(sel_cluster) \ chosen
           /\ Cardinality(SeqToSet(fill)) = Len(fill)
           /\ DescendingBy([n \in SeqToSet(sel_cluster) |-> ExactSum(n)],
                           fill, chosen)
           /\ DescendingBy([n \in SeqToSet(sel_cluster) |-> ComputedMean(n)],
                           fill, chosen)

\* C26: when |cluster| > K, each node picked by the loop of
\* select_representatives_coverage is, when it is picked, a member not yet
\* chosen with the greatest number of still uncovered other members joined to
\* it by an edge of weight > 0, the earliest such member in cluster order;
\* the pick and all its neighbours in the cluster become covered; the loop
\* ends when K nodes are picked, every member is covered or the best gain is
\* 0, and only then are the missing representatives filled in, by descending
\* mean similarity, from the members not yet chosen.
C26_CoveragePicks == [][PickedRight /\ FilledRight]_vars

\* two picks that cover the cluster, then one representative filled in
C26_Witness ==
    /\ cov # NoResult
    /\ representatives # NoResult
    /\ Len(sel_cluster) > sel_max
    /\ Len(cov[2]) = 2
    /\ cov[3] = SeqToSet(sel_cluster)
    /\ Len(representatives[2]) = 3

\* the result of the loop taken step by step is the result of the call
CoverageStepwise ==
    (representatives # NoResult
     /\ representatives[1] = "select_representatives_coverage") =>
        representatives[2] =
            select_representatives_coverage(sel_cluster, graph, sel_max)

----------------------------------------------------------------------------
(* SpecTokenize: tokenize applied to a source text, taken from the point     *)
(* where the text has been cut into tokens.                                  *)

\* the tokens a source text is made of: identifiers that begin with a letter
\* or an underscore, one that looks like a placeholder, a keyword, the string
\* placeholder, a number, an operator and a letter outside [A-Za-z], which
\* the token pattern yields as a token of its own
RawTokens ==
    {<<"x">>, <<"y", "2">>, <<"_", "x">>, <<"V", "A", "R", "_", "0">>,
     <<"i", "f">>, STRING_LITERAL, <<"1">>, <<"=">>, <<"é">>}

\* the names identifiers are renamed to: each begins with a letter and none
\* occurs in a source text
FreshNames ==
    {<<"p">>, <<"q", "_", "1">>, <<"r", "9">>, <<"I", "f">>, <<"v", "a", "r">>}

InitTokenize ==
    /\ Idle1
    /\ Idle3
    /\ last_call = NoResult
    /\ tree_order = DefaultOrder
    /\ tree = NoResult
    /\ inserted = NoResult
    /\ sel_cluster = <<>>
    /\ sel_max = DefaultMaxRepresentatives
    /\ representatives = NoResult
    /\ code_tokens \in UNION {[1..m -> RawTokens] : m \in 0..MaxTokens}
    /\ normalized_tokens = NoResult

Tokenize ==
    /\ normalized_tokens = NoResult
    /\ normalized_tokens' = normalize(code_tokens)
    /\ UNCHANGED vars1
    /\ UNCHANGED <<vars3, last_call, tree_order, tree, inserted, sel_cluster, sel_max,
                   representatives, code_tokens>>

NextTokenize == Tokenize

SpecTokenize == InitTokenize /\ [][NextTokenize]_vars

\* the token matches [A-Za-z_][A-Za-z0-9_]* and is neither a common keyword
\* nor STRING_LITERAL
IsIdentifier(token) ==
    /\ token # <<>>
    /\ token[1] \in IdentifierStart
    /\ \A i \in 1..Len(token) : token[i] \in IdentifierPart
    /\ token \notin COMMON_KEYWORDS
    /\ token # STRING_LITERAL

Identifiers(toks) == {t \in SeqToSet(toks) : IsIdentifier(t)}

\* the consistent renamings of the identifiers of toks to fresh names
Renamings(toks) ==
    {r \in [Identifiers(toks) -> FreshNames] :
        \A a, b \in Identifiers(toks) : a # b => r[a] # r[b]}

Rename(toks, r) ==
    [i \in 1..Len(toks) |-> IF toks[i] \in DOMAIN r THEN r[toks[i]] ELSE toks[i]]

\* C20: renaming every identifier of a source text consistently to a fresh
\* non-keyword identifier leaves the token list returned by tokenize
\* unchanged, identifiers that begin with an underscore included.
C20_RenamingInvariant ==
    normalized_tokens # NoResult =>
        \A r \in Renamings(code_tokens) :
            normalize(Rename(code_tokens, r)) = normalized_tokens

----------------------------------------------------------------------------
(* SpecDetector: add_submission calls with pairwise distinct ids and        *)
(* arbitrary file contents, then detect_plagiarism.                         *)
(* SpecResubmit: the same, and add_submission may also be given a path      *)
(* whose basename is an id already held.                                    *)
(* detect_plagiarism changes nothing, so a run ends with it.                *)
(* The metadata a file is submitted with is fixed for a run: it is what the *)
(* metadata file of the run holds for the file's name.                      *)

Directories == {"d1", "d2"}
Paths == {<<d, FileNames[i]>> : d \in Directories, i \in 1..NumIds}

\* the token stream the files are cut from
SourceTokens == <<"t1", "t2", "t3", "t4", "t5", "t6">>

\* what parse_file can yield: nothing (an unreadable or empty file), a list
\* shorter than a k-gram, and every window of the stream that holds at least
\* one k-gram
FileTokens ==
    {<<>>, SubSeq(SourceTokens, 1, DefaultKGramSize - 1)}
    \cup {SubSeq(SourceTokens, w[1], w[2]) :
            w \in {x \in (1..Len(SourceTokens)) \X (1..Len(SourceTokens)) :
                      x[2] - x[1] + 1 >= DefaultKGramSize}}

\* the thresholds a detector is constructed with: 0, a value some pair of
\* files scores exactly, and the default
Thresholds == {<<0, 1>>, <<1, 2>>, <<7, 10>>}

\* the metadata files of a run: none, and one whose lines give a.py and b.py
\* the dict app.py submits a file with, c.py a part without '=', d.py two
\* entries and e.py no part at all
MetadataFiles ==
    {<<>>,
     <<<<"a.py", <<"filename", "a.py">>>>,
       <<"b.py", <<"filename", "b.py">>>>,
       <<"c.py", <<"draft">>>>,
       <<"d.py", <<"author", "x">>, <<"year", "1">>>>,
       <<"e.py">>>>}

InitDetector ==
    /\ tokens1 = <<>>
    /\ tokens2 = <<>>
    /\ k_gram_size = DefaultKGramSize
    /\ similarity = NoResult
    /\ similarity_threshold \in Thresholds
    /\ graph = <<>>
    /\ min_cluster_size = DefaultMinClusterSize
    /\ clusters = NoResult
    /\ submissions = <<>>
    /\ results = NoResult
    /\ resubmissions = 0
    /\ Idle2
    /\ language = "generic"
    /\ source = <<>>
    /\ source2 = <<>>
    /\ edit = NoResult
    /\ parsed = NoResult
    /\ parsed2 = NoResult
    /\ blocks = NoResult
    /\ cov = NoResult
    /\ call = NoResult
    /\ subgraph = NoResult
    /\ matching_sequences = NoResult
    /\ metadata_file \in MetadataFiles
    /\ metadata_store = BPlusTree

\* the variables of the last part of the module that the detector leaves
\* alone
parser_vars == <<language, source, source2, edit, parsed, parsed2, blocks, cov,
                 call, subgraph, matching_sequences, metadata_file>>

\* the submissions, the metadata store and the graph of the detector
Detector ==
    [submissions |-> submissions, metadata_store |-> metadata_store,
     graph |-> graph]

\* the metadata argument of the add_submission call on a path: what the
\* metadata of the run holds for its basename (batch_process passes
\* metadata.get(basename, {}), app.py passes {"filename": name}, and a call
\* without the argument passes None)
MetadataFor(file_path) ==
    MetadataGet(LoadMetadata(metadata_file, 1, <<>>), basename(file_path))

\* add_submission on a path whose basename is not yet an id
AddSubmission ==
    \E file_path \in Paths, tokens \in FileTokens :
        LET r == add_submission(Detector, similarity_threshold, file_path,
                                tokens, MetadataFor(file_path))
        IN /\ results = NoResult
           /\ ~DictHas(submissions, basename(file_path))
           /\ submissions' = r.submissions
           /\ metadata_store' = r.metadata_store
           /\ graph' = r.graph
           /\ UNCHANGED <<tokens1, tokens2, k_gram_size, similarity,
                          similarity_threshold, min_cluster_size, clusters,
                          results, resubmissions>>
           /\ UNCHANGED <<vars2, parser_vars>>

\* add_submission on a path whose basename is an id already held
Resubmit ==
    \E file_path \in Paths, tokens \in FileTokens :
        LET r == add_submission(Detector, similarity_threshold, file_path,
                                tokens, MetadataFor(file_path))
        IN /\ results = NoResult
           /\ DictHas(submissions, basename(file_path))
           /\ resubmissions < MaxResubmissions
           /\ submissions' = r.submissions
           /\ metadata_store' = r.metadata_store
           /\ graph' = r.graph
           /\ resubmissions' = resubmissions + 1
           /\ UNCHANGED <<tokens1, tokens2, k_gram_size, similarity,
                          similarity_threshold, min_cluster_size, clusters,
                          results>>
           /\ UNCHANGED <<vars2, parser_vars>>

DetectPlagiarism ==
    /\ results = NoResult
    /\ results' = <<"detect_plagiarism",
                    detect_plagiarism(graph, metadata_store)>>
    /\ UNCHANGED <<tokens1, tokens2, k_gram_size, similarity,
                   similarity_threshold, graph, min_cluster_size, clusters,
                   submissions, resubmissions>>
    /\ UNCHANGED <<vars2, vars3>>

\* the entries of a directory: a file not yet submitted with the tokens
\* parse_file yields for it, or a subdirectory
Entries ==
    {e \in [name : {FileNames[i] : i \in 1..NumIds} \ DictKeySet(submissions),
            isfile : BOOLEAN, tokens : FileTokens] :
        ~e.isfile => e.tokens = <<>>}

\* the listings os.listdir can return: entries of distinct names in any
\* order
Listings ==
    {l \in UNION {[1..m -> Entries] : m \in 0..(NumIds - Len(submissions))} :
        \A i, j \in 1..Len(l) : i # j => l[i].name # l[j].name}

\* batch_process(directory, metadata_file)
BatchProcess ==
    \E directory \in Directories, listing \in Listings :
        LET r == batch_process(Detector, similarity_threshold, directory,
                               listing, metadata_file)
        IN /\ results = NoResult
           /\ submissions' = r.state.submissions
           /\ metadata_store' = r.state.metadata_store
           /\ graph' = r.state.graph
           /\ results' = <<"batch_process", r.returned>>
           /\ UNCHANGED <<tokens1, tokens2, k_gram_size, similarity,
                          similarity_threshold, min_cluster_size, clusters,
                          resubmissions>>
           /\ UNCHANGED <<vars2, parser_vars>>

NextDetector == AddSubmission \/ DetectPlagiarism

SpecDetector == InitDetector /\ [][NextDetector]_vars

NextResubmit == AddSubmission \/ Resubmit \/ DetectPlagiarism

SpecResubmit == InitDetector /\ [][NextResubmit]_vars

\* SpecBatch: add_submission calls with pairwise distinct ids, then one
\* batch_process over a directory of files not yet submitted
NextBatch == AddSubmission \/ BatchProcess

SpecBatch == InitDetector /\ [][NextBatch]_vars

\* the similarity of the token lists currently stored for u and v
StoredSimilarity(u, v) ==
    calculate_similarity(DictGet(submissions, u), DictGet(submissions, v),
                         DefaultKGramSize)

\* u and v are distinct submissions scoring at least the threshold
Similar(u, v) ==
    u # v /\ FGeq(StoredSimilarity(u, v), similarity_threshold)

\* C1: after any sequence of add_submission calls, for all distinct held ids
\* u and v, the graph has the edge (u, v) iff the similarity of the token
\* lists currently stored for u and v is >= the threshold, and the weight of
\* a present edge is that similarity.
C1_EdgesMatchSimilarity ==
    \A u, v \in DictKeySet(submissions) :
        u # v =>
            /\ Adjacent(graph, u, v) <=> Similar(u, v)
            /\ Adjacent(graph, u, v)
                 => get_edge_weight(graph, u, v) = StoredSimilarity(u, v)

\* the ids appearing in a record of detect_plagiarism
RecordIds(record) == {record.cluster[i].id : i \in 1..Len(record.cluster)}

\* the submissions linked to one of S by a chain of Similar submissions
RECURSIVE SimilarChain(_)
SimilarChain(S) ==
    LET S2 == S \cup {v \in DictKeySet(submissions) :
                         \E u \in S : Similar(u, v)}
    IN IF S2 = S THEN S ELSE SimilarChain(S2)

\* C2: after add_submission calls with pairwise distinct ids, an id is in a
\* record returned by detect_plagiarism iff it is Similar to some other
\* submission, and two ids share a record iff a chain of Similar submissions
\* links them; every other submission is in no record.
C2_ClustersFollowSimilarity ==
    (results # NoResult /\ resubmissions = 0) =>
        LET records == results[2]
            InRecord(u) == \E i \in 1..Len(records) : u \in RecordIds(records[i])
        IN /\ \A i \in 1..Len(records) :
                  RecordIds(records[i]) \subseteq DictKeySet(submissions)
           /\ \A u \in DictKeySet(submissions) :
                  InRecord(u) <=> \E v \in DictKeySet(submissions) : Similar(u, v)
           /\ \A u, v \in DictKeySet(submissions) :
                  u # v =>
                      ((\E i \in 1..Len(records) :
                            {u, v} \subseteq RecordIds(records[i]))
                       <=> v \in SimilarChain({u}))

\* a record of three submissions two of which are linked only through the
\* third
C2_Witness ==
    /\ results # NoResult
    /\ resubmissions = 0
    /\ \E i \in 1..Len(results[2]) :
           \E u, v \in RecordIds(results[2][i]) : u # v /\ ~Similar(u, v)

\* the ids of S in the order of their file names
NameOrder(S) == SelectSeq(SubSeq(FileNames, 1, NumIds), LAMBDA n : n \in S)

\* the detector state after submitting the ids in the given order, from the
\* i-th on, each with the tokens stored for it
RECURSIVE Replay(_, _, _)
Replay(order, i, state) ==
    IF i > Len(order) THEN state
    ELSE Replay(order, i + 1,
                add_submission(state, similarity_threshold,
                               <<"d1", order[i]>>,
                               DictGet(submissions, order[i]),
                               MetadataFor(<<"d1", order[i]>>)))

\* C3: for a fixed set of submissions with pairwise distinct ids and fixed
\* token lists, every order of the add_submission calls ends with the same
\* weighted edges: whatever order the calls of a run came in, its edges are
\* those of the run that submits the same files in the order of their names.
C3_OrderIndependent ==
    resubmissions = 0 =>
        WeightedEdges(Replay(NameOrder(DictKeySet(submissions)), 1,
                             PlagiarismDetector).graph)
          = WeightedEdges(graph)

\* three submissions made in another order than that of their names, edges
\* of two different weights, and a graph dict ordered differently from the
\* one built in name order
C3_Witness ==
    /\ resubmissions = 0
    /\ Len(submissions) = 3
    /\ DictKeys(submissions) # NameOrder(DictKeySet(submissions))
    /\ \E e1, e2 \in WeightedEdges(graph) : e1[3] # e2[3]
    /\ Replay(NameOrder(DictKeySet(submissions)), 1,
              PlagiarismDetector).graph # graph

\* the ids whose file gave no tokens: parse_file returns [] for a path that
\* cannot be read
Unreadable == {u \in DictKeySet(submissions) : DictGet(submissions, u) = <<>>}

\* the other ids, in the order of their add_submission calls
Readable == SelectSeq(DictKeys(submissions), LAMBDA u : u \notin Unreadable)

\* every id is the basename of a path; no edge of the graph ends at an
\* unreadable id; and detect_plagiarism returns what it returns when only the
\* other submissions are made
UnreadableIgnored ==
    /\ DictKeySet(submissions) \subseteq {basename(f) : f \in Paths}
    /\ \A u \in Unreadable : \A v \in DictKeySet(graph) :
           ~Adjacent(graph, u, v) /\ ~Adjacent(graph, v, u)
    /\ results # NoResult =>
           LET others == Replay(Readable, 1, PlagiarismDetector)
           IN results[2] =
                  detect_plagiarism(others.graph, others.metadata_store)

\* C22: add_submission on a path that cannot be read stores an empty token
\* list under the basename, adds no edge in that call, no later
\* add_submission adds an edge to that id, and detect_plagiarism still
\* returns the clusters of the other submissions.  Stated for the detectors
\* whose threshold is greater than 0, which the score 0.0 of an empty token
\* list does not reach.
C22_UnreadableNoEdges ==
    (FLess(FZero, similarity_threshold) /\ Unreadable # {}) => UnreadableIgnored

----------------------------------------------------------------------------
(* SpecExtract: _extract_blocks applied to a token list *)

\* the two tokens that start a definition, a plain token and the two braces
BlockTokens == {ClassKeyword, DefKeyword, <<"x">>, <<"{">>, <<"}">>}

InitExtract ==
    /\ Idle1
    /\ Idle3
    /\ last_call = NoResult
    /\ tree_order = DefaultOrder
    /\ tree = NoResult
    /\ inserted = NoResult
    /\ sel_cluster = <<>>
    /\ sel_max = DefaultMaxRepresentatives
    /\ representatives = NoResult
    /\ code_tokens \in UNION {[1..m -> BlockTokens] : m \in 0..MaxBlockTokens}
    /\ normalized_tokens = NoResult

ExtractBlocks ==
    /\ blocks = NoResult
    /\ blocks' = <<"_extract_blocks", extract_blocks(code_tokens)>>
    /\ UNCHANGED vars1
    /\ UNCHANGED vars2
    /\ UNCHANGED <<language, source, source2, edit, parsed, parsed2, cov,
                   call, subgraph, matching_sequences,
                   metadata_file, metadata_store>>

NextExtract == ExtractBlocks

SpecExtract == InitExtract /\ [][NextExtract]_vars

\* the number of class and def tokens in a token list
NumDefs(toks) == Cardinality({i \in 1..Len(toks) : toks[i] \in {ClassKeyword, DefKeyword}})

\* C24: for a token list without '{' and '}', _extract_blocks starts a new
\* block at every class or def token: every block holds at most one of them,
\* as its first token, and the number of blocks is the number of class and
\* def tokens, plus one when tokens precede the first of them.
C24_BlockPerDef ==
    (/\ blocks # NoResult
     /\ \A i \in 1..Len(code_tokens) :
            code_tokens[i] \notin {<<"{">>, <<"}">>}) =>
        LET b == blocks[2]
        IN /\ \A i \in 1..Len(b) :
                  \/ NumDefs(b[i]) = 0
                  \/ NumDefs(b[i]) = 1 /\ b[i][1] \in {ClassKeyword, DefKeyword}
           /\ Len(b) = NumDefs(code_tokens)
                        + (IF /\ code_tokens # <<>>
                              /\ code_tokens[1] \notin {ClassKeyword, DefKeyword}
                           THEN 1 ELSE 0)

----------------------------------------------------------------------------
(* SpecComments: tokenize applied to a source text and to the same text     *)
(* with a comment inserted.  edit is <<p, kind, comment>>: the comment is    *)
(* put after the first p characters of source.                               *)

\* the languages that have patterns of their own
Dialects == {"python", "java", "cpp", "javascript"}

\* the characters that open and close the comments and strings of the
\* dialects, a letter and the newline
SourceChars == {"\"", "/", "*", "#", "x", "\n"}

\* a line comment and a block comment of a language
Comments(lang) ==
    IF lang \in {"java", "cpp", "javascript"}
    THEN {<<"line", <<"/", "/", "c">>>>,
          <<"block", <<"/", "*", "c", "*", "/">>>>}
    ELSE {<<"line", <<"#", "c">>>>,
          <<"block", <<"\"", "\"", "\"", "c", "\"", "\"", "\"">>>>}

InitComments ==
    /\ Idle1
    /\ Idle2
    /\ language \in Dialects
    /\ source \in UNION {[1..m -> SourceChars] : m \in 0..MaxSource}
    /\ source2 = <<>>
    /\ edit = NoResult
    /\ parsed = NoResult
    /\ parsed2 = NoResult
    /\ blocks = NoResult
    /\ cov = NoResult
    /\ call = NoResult
    /\ subgraph = NoResult
    /\ matching_sequences = NoResult
    /\ metadata_file = <<>>
    /\ metadata_store = BPlusTree

\* text with ins put after its first p characters
Inserted(text, p, ins) ==
    SubSeq(text, 1, p) \o ins \o SubSeq(text, p + 1, Len(text))

\* tokenize(source, language) and tokenize of the text with a comment put in
InsertComment ==
    \E c \in Comments(language), p \in 0..Len(source) :
        /\ edit = NoResult
        /\ edit' = <<p, c[1], c[2]>>
        /\ source2' = Inserted(source, p, c[2])
        /\ parsed' = <<"tokenize", tokenize(source, language)>>
        /\ parsed2' = <<"tokenize",
                        tokenize(Inserted(source, p, c[2]), language)>>
        /\ UNCHANGED vars1
        /\ UNCHANGED vars2
        /\ UNCHANGED <<language, source, blocks, cov, call, subgraph,
                       matching_sequences,
                       metadata_file, metadata_store>>

NextComments == InsertComment

SpecComments == InitComments /\ [][NextComments]_vars

\* the position after the lexical item of the language that starts at
\* position i of the text: a comment, a string literal, a name, a number or a
\* single other character; 0 when the item is a block comment or a string
\* literal that is not closed
ItemEnd(code, lang, i) ==
    LET c == CommentMatch(CommentPatterns(lang), 1, code, i)
        alts == CommentPatterns(lang)
    IN IF c # 0 THEN c
       ELSE IF \E k \in 1..Len(alts) : StartsWith(code, i, alts[k][2]) THEN 0
       ELSE IF code[i] \in StringQuotes(lang)
       THEN StringEnd(code, i + 1, code[i])
       ELSE IF code[i] \in IdentifierStart
       THEN RunEnd(code, i + 1, IdentifierPart)
       ELSE IF code[i] \in DecimalDigits
       THEN RunEnd(code, i + 1, DecimalDigits)
       ELSE i + 1

\* the token boundaries of a text, read from left to right from position i
\* on: the numbers p such that no lexical item holds both the p-th and the
\* (p + 1)-st character
RECURSIVE Boundaries(_, _, _)
Boundaries(code, lang, i) ==
    IF i > Len(code) THEN {Len(code)}
    ELSE LET e == ItemEnd(code, lang, i)
         IN IF e = 0 THEN {i - 1}
            ELSE {i - 1} \cup Boundaries(code, lang, e)

\* C23: for every dialect and every source text, a comment of the dialect
\* inserted at a token boundary of the text (a line comment where the line
\* ends, so that it runs up to the end of its line, or a block comment) does
\* not change the token list tokenize returns.  Only the insertions at the
\* start of the text or after a whitespace character are looked at, where
\* the opening of the comment cannot join the character before it.
C23_CommentInsensitive ==
    (/\ edit # NoResult
     /\ edit[1] \in Boundaries(source, language, 1)
     /\ edit[1] = 0 \/ source[edit[1]] \in Whitespace
     /\ edit[2] = "line" =>
            (edit[1] = Len(source) \/ source[edit[1] + 1] = "\n")) =>
        parsed2 = parsed

----------------------------------------------------------------------------
(* SpecBlocks: tokenize_block_insensitive applied to a python text made of  *)
(* top-level definitions and to the text with the definitions reordered.     *)
(* edit is <<o1, o2>>: source holds the definitions numbered o1, source2     *)
(* the same ones in the order o2.                                            *)

\* four top-level definitions of a python file
BlockTexts ==
    <<
      <<"d", "e", "f", " ", "f", "(", "a", ")", ":", "\n", " ", "r", "e",
        "t", "u", "r", "n", " ", "a", "\n">>,
      <<"d", "e", "f", " ", "g", "(", "b", ")", ":", "\n", " ", "r", "e",
        "t", "u", "r", "n", " ", "b", " ", "+", " ", "1", "\n">>,
      <<"c", "l", "a", "s", "s", " ", "C", ":", "\n", " ", "x", " ", "=",
        " ", "2", "\n">>,
      <<"d", "e", "f", " ", "h", "(", ")", ":", "\n", " ", "p", "a", "s",
        "s", "\n">>>>

\* the lists of distinct numbers of definitions, at least one
BlockOrders ==
    UNION {{o \in [1..m -> 1..Len(BlockTexts)] :
              \A i, j \in 1..m : i # j => o[i] # o[j]} :
             m \in 1..Len(BlockTexts)}

\* the text of the definitions numbered o, one after the other
RECURSIVE TextOf(_)
TextOf(o) == IF o = <<>> THEN <<>> ELSE BlockTexts[Head(o)] \o TextOf(Tail(o))

InitBlocks ==
    /\ Idle1
    /\ Idle2
    /\ language = "python"
    /\ source \in {TextOf(o) : o \in BlockOrders}
    /\ source2 = <<>>
    /\ edit = NoResult
    /\ parsed = NoResult
    /\ parsed2 = NoResult
    /\ blocks = NoResult
    /\ cov = NoResult
    /\ call = NoResult
    /\ subgraph = NoResult
    /\ matching_sequences = NoResult
    /\ metadata_file = <<>>
    /\ metadata_store = BPlusTree

\* tokenize_block_insensitive of the text and of a reordering of it
TokenizeBlockInsensitive ==
    \E o1, o2 \in BlockOrders :
        /\ edit = NoResult
        /\ source = TextOf(o1)
        /\ {o1[i] : i \in 1..Len(o1)} = {o2[i] : i \in 1..Len(o2)}
        /\ edit' = <<o1, o2>>
        /\ source2' = TextOf(o2)
        /\ parsed' = <<"tokenize_block_insensitive",
                       tokenize_block_insensitive(source, language)>>
        /\ parsed2' = <<"tokenize_block_insensitive",
                        tokenize_block_insensitive(TextOf(o2), language)>>
        /\ blocks' = <<"_extract_blocks",
                       extract_blocks(tokenize(source, language))>>
        /\ UNCHANGED vars1
        /\ UNCHANGED vars2
        /\ UNCHANGED <<language, source, cov, call, subgraph,
                       matching_sequences,
                       metadata_file, metadata_store>>

NextBlocks == TokenizeBlockInsensitive

SpecBlocks == InitBlocks /\ [][NextBlocks]_vars

\* C21: when python source G is source F with its top-level class and def
\* blocks reordered, the block-insensitive token lists of F and G are equal
\* (so a similarity computed from them is that of F with itself).
C21_ReorderInsensitive ==
    edit # NoResult => parsed2 = parsed

====
